---- MODULE Spec2Model ----
(***************************************************************************)
(* A model of the environment-provisioning workflow of rlancer/dangerous-ai *)
(* (bootstrap scripts setup.sh / setup.ps1, the cross-platform setup.ts and *)
(* its revisions).  Every subprocess call of the scripts is one step; the   *)
(* external package managers are modelled by the state they own (what is    *)
(* installed, what is on the execution path, what the profile files hold).  *)
(***************************************************************************)
EXTENDS Integers, Sequences, FiniteSets, TLC

(***************************************************************************)
(* Bounds of the model.                                                     *)
(***************************************************************************)
\* longest pre-existing profile file, in tokens
MaxUserLen == 2
\* number of successive configureProfiles runs explored on one machine
MaxRuns == 3
\* number of successive provisioning runs explored on one machine
MaxProvRuns == 2

VARIABLES
    variant,     \* which revision of the provisioning code runs
    isWindows,   \* process.platform === "win32"
    files,       \* profile file name -> Absent or its content (sequence of tokens)
    runs         \* completed configureProfiles calls

\* the Provisioning Stage (setup.ts) and the machine it runs on
VARIABLES
    cfgState,      \* config.json as loadConfig finds it: "valid", "missing", "unparsable"
    flaky,         \* whether subprocesses can fail on this machine
    pc,            \* position inside the running function
    mainIdx,       \* next call of main()
    idx,           \* loop index of the running function
    run,           \* number of the current run on this machine
    prevEnded,     \* how the previous run ended ("none" before the first)
    exitCode,      \* -1 while running, else the exit code of the process
    cause,         \* the command whose failure ended the process
    log,           \* the subprocess calls and prompts of the current run, in order
    out,           \* messages the current run has printed
    miseInstalled, \* tool name -> versions mise has installed
    miseGlobal,    \* tool name -> version in mise's global config
    path,          \* commands found on the execution path
    sshPriv,       \* ~/.ssh/id_ed25519
    sshPub,        \* ~/.ssh/id_ed25519.pub
    world0         \* the machine before the first run

\* the macOS Bootstrap Stage (setup.sh) and the machine it runs on
VARIABLES
    shPc,        \* position inside setup.sh
    shIdx,       \* index of the running for loop
    shCfg,       \* $CONFIG_PATH: "missing", "unparsable" or "valid"
    shSetupTs,   \* whether $SETUP_TS_PATH exists
    shJq,        \* command -v jq
    shBrew,      \* command -v brew
    brewHas,     \* taps, formulae and casks Homebrew has
    shLog,       \* the commands setup.sh ran, in order, with their outcome
    shExit       \* -1 while running, else the exit code of setup.sh

\* the Windows Bootstrap Stage (setup.ps1), its handoff and the machine
VARIABLES
    psPc,          \* position inside setup.ps1
    psIdx,         \* index of the running foreach loop
    psScriptRoot,  \* whether $PSScriptRoot is set (run from a file on disk)
    psLocal,       \* <repo>\config\config.json: "absent" or its content
    psSourceTs,    \* whether setup.ts lies next to setup.ps1
    psConfig,      \* $config: "none" or the content it was parsed from
    psScoop,       \* Get-Command scoop
    scoopHas,      \* buckets and apps Scoop has
    psBuckets,     \* $buckets
    psInstalledApps, \* $installedApps
    psNativeBun,   \* whether ~\.bun\bin\bun.exe exists
    psMiseBun,     \* bun in mise: "none", "installed" or "missing"
    psMiseToml,    \* whether the mise global config has a "bun =" line
    psTemp,        \* %TEMP%\ai-setup: setup.ts and config\config.json
    psParentCfg,   \* %TEMP%\config\config.json: "absent" or its content
    psLoaded,      \* what loadConfig of the staged setup.ts returned
    psLog,         \* the commands and prompts of setup.ps1, in order
    psExit         \* -1 while running, else the exit code of setup.ps1

\* the publish script (publish.ts), its arguments and the repository it runs in
VARIABLES
    pubPc,       \* position inside main
    pubArgs,     \* process.argv.slice(2)
    pubDirty,    \* whether the working tree has uncommitted changes
    pubFile0,    \* the version line of pyproject.toml before the run
    pubFile,     \* the version line of pyproject.toml ("" as <<>> when there is none)
    pubNew,      \* newVersion
    pubLog,      \* the git commands run, in order, with their outcome
    pubExit      \* -1 while running, else the exit code

\* aftr init
VARIABLES
    initPc,      \* position in init
    initName,    \* the project name, a sequence of characters
    initBase,    \* the directory the project is created in (--path or the cwd)
    initTarget,  \* the project directory before the run: absent, empty, nonempty
    initTree,    \* the paths init has created
    initExit     \* -1 while running, else the exit code

\* "Install mise tools from config" of the all-in-one PowerShell scripts
VARIABLES
    psmPc,        \* position in the foreach loop
    psmIdx,       \* index into $config.mise_tools
    psmVariant,   \* which script: "setup.ps1" (older all-in-one) or "part_001"
    psmInstalled, \* versions mise holds of each tool
    psmGlobal,    \* the version of each tool in mise's global config
    psmLog        \* the mise commands run, in order, with their outcome

\* setup-mcp.sh
VARIABLES
    mcpPc,       \* position in the script
    mcpJq,       \* whether jq is on the PATH
    mcpDir,      \* whether the Claude config directory exists
    mcpFile,     \* claude_desktop_config.json: its kind, JSON value and layout
    mcpPrev,     \* the directory and the file when the current run started
    mcpRun,      \* number of the current run
    mcpExit      \* -1 while running, else the exit code

\* test-wrapper.ps1, as test-setup.ps1 -RunTest writes it
VARIABLES
    wrPc,         \* position in the wrapper
    wrIdx,        \* index of the command the verification looks for
    wrSetup,      \* how setup.ps1 ended: completed, error (terminating), exit
    wrHas,        \* the commands Get-Command finds
    wrOut,        \* the lines the wrapper has written, in order
    wrTranscript  \* off, on, stopped

profVars == <<variant, isWindows, files, runs>>
ctlVars == <<cfgState, flaky, pc, mainIdx, idx, run, prevEnded, exitCode, cause, log, out>>
miseVars == <<miseInstalled, miseGlobal>>
sshVars == <<sshPriv, sshPub>>
provVars == <<ctlVars, miseVars, path, sshVars, world0>>
shVars == <<shPc, shIdx, shCfg, shSetupTs, shJq, shBrew, brewHas, shLog, shExit>>
psVars == <<psPc, psIdx, psScriptRoot, psLocal, psSourceTs, psConfig, psScoop, scoopHas,
            psBuckets, psInstalledApps, psNativeBun, psMiseBun, psMiseToml, psTemp,
            psParentCfg, psLoaded, psLog, psExit>>
pubVars == <<pubPc, pubArgs, pubDirty, pubFile0, pubFile, pubNew, pubLog, pubExit>>
\* the developer tools of the repository
initVars == <<initPc, initName, initBase, initTarget, initTree, initExit>>
psmVars == <<psmPc, psmIdx, psmVariant, psmInstalled, psmGlobal, psmLog>>
mcpVars == <<mcpPc, mcpJq, mcpDir, mcpFile, mcpPrev, mcpRun, mcpExit>>
wrVars == <<wrPc, wrIdx, wrSetup, wrHas, wrOut, wrTranscript>>
toolVars == <<pubVars, initVars, psmVars, mcpVars, wrVars>>
bootVars == <<shVars, psVars, toolVars>>
vars == <<profVars, provVars, bootVars>>

\* setup.sh is not running
ShIdle ==
    /\ shPc = "idle" /\ shIdx = 0 /\ shCfg = "valid" /\ shSetupTs = TRUE
    /\ shJq = FALSE /\ shBrew = FALSE /\ brewHas = {} /\ shLog = <<>> /\ shExit = -1

\* publish.ts is not running
PubIdle ==
    /\ pubPc = "idle" /\ pubArgs = <<>> /\ pubDirty = FALSE /\ pubFile0 = <<>>
    /\ pubFile = <<>> /\ pubNew = <<>> /\ pubLog = <<>> /\ pubExit = -1

\* aftr init is not running
InitIdle ==
    /\ initPc = "idle" /\ initName = <<>> /\ initBase = <<>>
    /\ initTarget = "absent" /\ initTree = {} /\ initExit = -1

\* the all-in-one PowerShell scripts are not running
PsmIdle ==
    /\ psmPc = "idle" /\ psmIdx = 0 /\ psmVariant = "setup.ps1"
    /\ psmInstalled = <<>> /\ psmGlobal = <<>> /\ psmLog = <<>>

\* setup-mcp.sh is not running
McpIdle ==
    /\ mcpPc = "idle" /\ mcpJq = FALSE /\ mcpDir = FALSE /\ mcpFile = <<>>
    /\ mcpPrev = <<>> /\ mcpRun = 0 /\ mcpExit = -1

\* the test wrapper is not running
WrIdle ==
    /\ wrPc = "idle" /\ wrIdx = 0 /\ wrSetup = "none" /\ wrHas = {}
    /\ wrOut = <<>> /\ wrTranscript = "off"

\* no developer tool is running
ToolIdle == PubIdle /\ InitIdle /\ PsmIdle /\ McpIdle /\ WrIdle

\* setup.ps1 is not running
PsIdle ==
    /\ psPc = "idle" /\ psIdx = 0 /\ psScriptRoot = FALSE /\ psLocal = "absent"
    /\ psSourceTs = FALSE /\ psConfig = "none" /\ psScoop = FALSE /\ scoopHas = {}
    /\ psBuckets = {} /\ psInstalledApps = {} /\ psNativeBun = FALSE
    /\ psMiseBun = "none" /\ psMiseToml = FALSE
    /\ psTemp = [setupTs |-> "absent", config |-> "absent"]
    /\ psParentCfg = "absent" /\ psLoaded = "none" /\ psLog = <<>> /\ psExit = -1

(***************************************************************************)
(* Shell profile files.  A file is Absent or holds a text: a sequence of    *)
(* tokens, each a newline or a piece of text without newline.  The pieces   *)
(* are named by what the marker searches can see in them.                   *)
(***************************************************************************)
Absent == [exists |-> FALSE, text |-> <<>>]
File(text) == [exists |-> TRUE, text |-> text]

\* text of a pre-existing profile: arbitrary user text, or text holding a marker
UserTokens == {"user", "starship", "localbin", "bunbin"}

RECURSIVE SeqsUpTo(_, _)
SeqsUpTo(S, n) ==
    IF n = 0 THEN {<<>>}
    ELSE LET shorter == SeqsUpTo(S, n - 1)
         IN  shorter \cup {Append(s, x) : s \in shorter, x \in S}

ProfileFiles == {"pwsh", "winps", "zshrc"}

\* the revisions of the profile-configuration code
TsVariants == {"ts_ssh", "ts_uv", "ts_aftr"}
PsVariants == {"ps1", "ps1_bun"}

\* String.prototype.includes / Select-String -Quiet on the file's text
includes(text, marker) == \E i \in 1..Len(text) : text[i] = marker

\* number of occurrences of a marker in a file (0 for an absent file)
Count(file, marker) ==
    Cardinality({i \in 1..Len(file.text) : file.text[i] = marker})

\* profileContent of setup.ts (template literal: starts and ends with newline)
profileContentTs(v, win) ==
    IF v = "ts_uv"
    THEN IF win
         THEN <<"nl", "comment", "nl", "localbin", "nl", "nl", "comment", "nl",
                "starship", "nl", "nl", "comment", "nl", "mise", "nl">>
         ELSE <<"nl", "comment", "nl", "localbin", "nl", "nl", "comment", "nl",
                "mise", "nl", "nl", "comment", "nl", "starship", "nl">>
    ELSE IF win
         THEN <<"nl", "comment", "nl", "starship", "nl", "nl", "comment", "nl",
                "mise", "nl">>
         ELSE <<"nl", "comment", "nl", "mise", "nl", "nl", "comment", "nl",
                "starship", "nl">>

\* the marker setup.ts searches for
markerTs(v) == IF v = "ts_uv" THEN "localbin" ELSE "starship"

\* a plausible slip: append without looking for the marker
ensureBlockTsNoCheck(file, marker, block) ==
    IF ~file.exists THEN File(block) ELSE File(file.text \o block)

\* if (!existsSync) writeFileSync; else if (!includes(marker)) appendFileSync
ensureBlockTs(file, marker, block) ==
    IF ~file.exists THEN File(block)
    ELSE IF ~includes(file.text, marker) THEN File(file.text \o block)
    ELSE file

\* $profileContent of setup.ps1 (here-string: no leading, no trailing newline)
profileContentPs(v) ==
    IF v = "ps1_bun"
    THEN <<"comment", "nl", "bunbin", "nl", "comment", "nl", "nl", "comment", "nl",
           "mise", "nl", "nl", "comment", "nl", "starship">>
    ELSE <<"comment", "nl", "mise", "nl", "nl", "comment", "nl", "starship">>

\* $bunPathSnippet (here-string starting with an empty line)
bunPathSnippet == <<"nl", "comment", "nl", "bunbin", "nl", "comment">>

\* Out-File and Add-Content end what they write with a newline
OutFile(text) == File(text \o <<"nl">>)
AddContent(file, text) == File(file.text \o text \o <<"nl">>)

\* setup.ps1: Test-Path / Select-String "starship init" / Add-Content "`n$profileContent"
ensureBlockPs(file, block) ==
    IF ~file.exists THEN OutFile(block)
    ELSE IF ~includes(file.text, "starship") THEN AddContent(file, <<"nl">> \o block)
    ELSE file

\* the revision with the bun PATH snippet: two independent marker checks
ensureBlockPsBun(file, block) ==
    IF ~file.exists THEN OutFile(block)
    ELSE LET afterStarship ==
                 IF ~includes(file.text, "starship")
                 THEN AddContent(file, <<"nl">> \o block)
                 ELSE file
         IN  IF ~includes(afterStarship.text, "bunbin")
             THEN AddContent(afterStarship, bunPathSnippet)
             ELSE afterStarship

\* the files one configureProfiles call manages
ManagedFiles(v, win) ==
    IF v \in PsVariants \/ win THEN {"pwsh", "winps"} ELSE {"zshrc"}

\* one file after one call
ensureBlock(v, win, file) ==
    IF v \in TsVariants THEN ensureBlockTs(file, markerTs(v), profileContentTs(v, win))
    ELSE IF v = "ps1" THEN ensureBlockPs(file, profileContentPs(v))
    ELSE ensureBlockPsBun(file, profileContentPs(v))

\* configureProfiles: every managed file, in one call
configureProfiles(v, win, fs) ==
    [f \in ProfileFiles |->
        IF f \in ManagedFiles(v, win) THEN ensureBlock(v, win, fs[f]) ELSE fs[f]]

(***************************************************************************)
(* The manifest (config.json) and the package managers' state.  Package and *)
(* tool identifiers are sequences of tokens, so that the code's string      *)
(* operations (replace(/@.*/, ""), split("/").pop()) are computed.          *)
(***************************************************************************)
NoVersion == <<>>
MiseNames == {<<"uv">>, <<"node">>}
\* versions the version manager can hold of a tool
AvailVersions(name) == IF name = <<"uv">> THEN {<<"1">>, <<"2">>} ELSE {<<"2">>}

\* interface Config, as loadConfig returns it for each revision
config(v) ==
    [mise_tools |-> << <<"uv", "@", "1">>, <<"node", "@", "2">> >>,
     uv_tools   |-> IF v = "ts_ssh" THEN <<>> ELSE << <<"aftr">> >>,
     bun_global |-> IF v = "ts_ssh"
                    THEN << <<"@openai", "/", "codex">>,
                            <<"@anthropic-ai", "/", "claude-code">> >>
                    ELSE IF v = "ts_aftr" THEN << <<"@google", "/", "gemini-cli">> >>
                    ELSE <<>>]

\* the command a global package installs (README: AI CLI Tools, Package -> Command)
BinOf(pkg) ==
    IF pkg = <<"@anthropic-ai", "/", "claude-code">> THEN <<"claude">>
    ELSE IF pkg = <<"@google", "/", "gemini-cli">> THEN <<"gemini">>
    ELSE IF pkg = <<"@openai", "/", "codex">> THEN <<"codex">>
    ELSE pkg

Positions(s, tok) == {i \in 1..Len(s) : s[i] = tok}
MinOf(S) == CHOOSE x \in S : \A y \in S : x <= y
MaxOf(S) == CHOOSE x \in S : \A y \in S : x >= y

\* tool.replace(/@.*/, "")
toolName(tool) ==
    IF Positions(tool, "@") = {} THEN tool
    ELSE SubSeq(tool, 1, MinOf(Positions(tool, "@")) - 1)

\* the version `mise install name@version` / `mise use -g name@version` act on
toolVersion(tool) ==
    IF Positions(tool, "@") = {} THEN <<"latest">>
    ELSE SubSeq(tool, MinOf(Positions(tool, "@")) + 1, Len(tool))

\* a slip: the whole identifier taken as the command name
cmdNameWhole(pkg) == pkg

\* pkg.split("/").pop()
cmdName(pkg) ==
    IF Positions(pkg, "/") = {} THEN pkg
    ELSE SubSeq(pkg, MaxOf(Positions(pkg, "/")) + 1, Len(pkg))

\* the lines `mise list <name>` prints: one per installed or configured version
miseList(installed, global, name) ==
    {[version |-> v, missing |-> v \notin installed[name]] :
        v \in installed[name] \cup ({global[name]} \ {NoVersion})}

\* result && !result.includes("(missing)")
alreadyInstalled(lines) == lines # {} /\ ~(\E l \in lines : l.missing)

\* existsSync(miseGlobalConfig): mise keeps the global versions in config.toml
miseGlobalConfigExists(global) == \E n \in MiseNames : global[n] # NoVersion

\* commandExists: where / which
commandExists(cmd) == cmd \in path

\* prompt answers: just Enter, "Yes", "no"
Answers == {<<>>, <<"Y", "e", "s">>, <<"n", "o">>}
toLowerCase(a) == [i \in 1..Len(a) |-> IF a[i] = "Y" THEN "y" ELSE a[i]]
\* response === "" || response.toLowerCase().startsWith("y")
\* every answer taken as a yes
optsInAlways(a) == TRUE
optsIn(a) == a = <<>> \/ (Len(a) > 0 /\ toLowerCase(a)[1] = "y")
Emails == {<<>>, <<"me@example.com">>}

NoCmd == [cmd |-> "none", arg |-> <<>>]
Cmd(c, a) == [cmd |-> c, arg |-> a]

\* what a subprocess call can do on this machine
Outcomes == IF flaky THEN BOOLEAN ELSE {TRUE}

\* main(): the functions it awaits, in order
MainSeq(v) ==
    IF v = "ts_ssh"
    THEN <<"installMiseTools", "installBunGlobals", "configureProfiles",
           "showSummary", "setupSSHKey">>
    ELSE IF v = "ts_uv"
    THEN <<"installMiseTools", "installUvTools", "installBunGlobals",
           "configureProfiles", "showSummary", "showNextSteps">>
    ELSE <<"installMiseTools", "installUvTools", "installBunGlobals",
           "configureProfiles", "showSummary", "runAftrSetup">>

\* the first position of each function
Entry(fn) ==
    CASE fn = "installMiseTools"  -> "mise_trust"
      [] fn = "installUvTools"    -> IF variant = "ts_uv" THEN "uv_path" ELSE "uv_check"
      [] fn = "installBunGlobals" -> "bun_check"
      [] fn = "configureProfiles" -> "profiles"
      [] fn = "showSummary"       -> "sum_mise"
      [] fn = "setupSSHKey"       -> "ssh_prompt"
      [] fn = "showNextSteps"     -> "next_steps"
      [] fn = "runAftrSetup"      -> "aftr_setup"

\* the provisioning stage is not running (the profile code is looked at alone)
ProvIdle ==
    /\ cfgState = "valid" /\ flaky = FALSE
    /\ pc = "idle" /\ mainIdx = 0 /\ idx = 0 /\ run = 0 /\ prevEnded = "none"
    /\ exitCode = -1 /\ cause = NoCmd /\ log = <<>> /\ out = {}
    /\ miseInstalled = [n \in MiseNames |-> {}]
    /\ miseGlobal = [n \in MiseNames |-> NoVersion]
    /\ path = {}
    /\ sshPriv = "none" /\ sshPub = "none"
    /\ world0 = [installed |-> miseInstalled, global |-> miseGlobal, path |-> path]

\* neither bootstrap script is running
BootIdle == ShIdle /\ PsIdle /\ ToolIdle

(***************************************************************************)
(* Specification of the profile configuration alone: any pre-existing       *)
(* profile files, then successive runs of the same revision.                *)
(***************************************************************************)
UserContents == {Absent} \cup {File(t) : t \in SeqsUpTo(UserTokens, MaxUserLen)}

InitProfile ==
    /\ variant \in TsVariants \cup PsVariants
    /\ isWindows \in BOOLEAN
    /\ variant \in PsVariants => isWindows
    /\ files \in [ProfileFiles -> UserContents]
    /\ \A f \in ProfileFiles : f \notin ManagedFiles(variant, isWindows) => files[f] = Absent
    /\ runs = 0
    /\ ProvIdle
    /\ BootIdle

ConfigureProfilesRun ==
    /\ runs < MaxRuns
    /\ files' = configureProfiles(variant, isWindows, files)
    /\ runs' = runs + 1
    /\ UNCHANGED <<variant, isWindows, provVars, bootVars>>

NextProfile == ConfigureProfilesRun

SpecProfile == InitProfile /\ [][NextProfile]_vars

(***************************************************************************)
(* Properties of the profile configuration.                                 *)
(***************************************************************************)
\* the marker substrings whose uniqueness each revision is meant to keep
Markers(v) ==
    IF v = "ts_uv" THEN {"localbin"}
    ELSE IF v = "ps1_bun" THEN {"starship", "bunbin"}
    ELSE {"starship"}

\* the initialization block of a revision
Block(v, win) == IF v \in TsVariants THEN profileContentTs(v, win) ELSE profileContentPs(v)

\* the text is one copy of the block, up to the newline that separates or ends it
IsOneBlock(text, block) ==
    text \in {block, block \o <<"nl">>, <<"nl">> \o block, <<"nl">> \o block \o <<"nl">>}

IsPrefix(a, b) == Len(a) <= Len(b) /\ SubSeq(b, 1, Len(a)) = a

\* C1: in every managed profile file, a marker that occurs at most once before a
\* provisioning run occurs at most once after it (so, by induction, after any
\* number of runs started from an absent file or one holding the marker at most once).
C1_MarkerAtMostOnce ==
    [][\A f \in ManagedFiles(variant, isWindows) : \A m \in Markers(variant) :
          Count(files[f], m) <= 1 => Count(files'[f], m) <= 1]_vars

\* the three outcomes of one call, for each managed file
ThreeOutcomesStep ==
    variant \in TsVariants \cup {"ps1"} =>
       \A f \in ManagedFiles(variant, isWindows) :
          LET old == files[f]
              new == files'[f]
              block == Block(variant, isWindows)
              marker == IF variant \in TsVariants THEN markerTs(variant) ELSE "starship"
          IN  /\ ~old.exists => new.exists /\ new.text \in {block, block \o <<"nl">>}
              /\ (old.exists /\ ~includes(old.text, marker)) =>
                     /\ new.exists
                     /\ IsPrefix(old.text, new.text)
                     /\ IsOneBlock(SubSeq(new.text, Len(old.text) + 1, Len(new.text)), block)
              /\ (old.exists /\ includes(old.text, marker)) => new = old

\* C2: one configureProfiles call (setup.ts, setup.ps1) on one profile file has three
\* outcomes: an absent file is created holding exactly the block; a file without the
\* marker gets exactly one copy of the block appended, its previous content kept as a
\* prefix; a file holding the marker is left unchanged.
C2_ThreeOutcomes == [][ThreeOutcomesStep]_vars

\* C2 witness: after a run, a profile that held user text and no marker holds the
\* user text followed by the block, and another run has left a configured file alone.
C2_Witness ==
    /\ runs = 2
    /\ variant = "ps1"
    /\ files["pwsh"].text = <<"user">> \o <<"nl">> \o profileContentPs("ps1") \o <<"nl">>
    /\ files["winps"].text = OutFile(profileContentPs("ps1")).text

(***************************************************************************)
(* The Provisioning Stage: setup.ts.  One step per subprocess call or       *)
(* prompt (the suspension points), each with the handling of its outcome.   *)
(***************************************************************************)
Msg(m, a) == [msg |-> m, arg |-> a]

fixedVars == <<variant, isWindows, runs, cfgState, flaky, run, prevEnded, world0, bootVars>>

Go(p, i) == pc' = p /\ idx' = i /\ UNCHANGED <<mainIdx, exitCode, cause>>
\* the function returns to main()
Return == Go("main", 0)
\* an uncaught rejection: main().catch prints "Setup failed:" and process.exit(1)
Throw(c) == pc' = "failed" /\ exitCode' = 1 /\ cause' = c /\ UNCHANGED <<mainIdx, idx>>
Issue(c) == log' = Append(log, c)
Say(M) == out' = out \cup M

\* const config = loadConfig(), at module load
LoadConfig ==
    /\ pc = "load"
    /\ IF cfgState = "valid" THEN Go("main", 0) ELSE Throw(Cmd("loadConfig", <<>>))
    /\ UNCHANGED <<fixedVars, log, out, miseVars, path, sshVars, files>>

\* main(): await the next function
MainCall ==
    /\ pc = "main"
    /\ mainIdx <= Len(MainSeq(variant))
    /\ pc' = Entry(MainSeq(variant)[mainIdx])
    /\ idx' = 1
    /\ mainIdx' = mainIdx + 1
    /\ UNCHANGED <<fixedVars, exitCode, cause, log, out, miseVars, path, sshVars, files>>

\* main(): "Setup complete!" and the process ends with code 0
MainDone ==
    /\ pc = "main"
    /\ mainIdx > Len(MainSeq(variant))
    /\ pc' = "done"
    /\ exitCode' = 0
    /\ Say({Msg(IF variant = "ts_uv" THEN "Base setup complete!" ELSE "Setup complete!", <<>>)})
    /\ UNCHANGED <<fixedVars, mainIdx, idx, cause, log, miseVars, path, sshVars, files>>

\* the for loop over config.mise_tools
ToolLoop(i) == IF i <= Len(config(variant).mise_tools) THEN Go("mise_list", i) ELSE Return

\* installMiseTools: mise trust of the global config, its failure ignored
MiseTrust ==
    /\ pc = "mise_trust"
    /\ IF miseGlobalConfigExists(miseGlobal)
       THEN Issue(Cmd("mise trust", <<>>))
       ELSE UNCHANGED log
    /\ ToolLoop(1)
    /\ UNCHANGED <<fixedVars, out, miseVars, path, sshVars, files>>

\* installMiseTools: mise list <toolName> and the decision to install
MiseList ==
    /\ pc = "mise_list"
    /\ LET tool == config(variant).mise_tools[idx]
           name == toolName(tool)
       IN  \E ok \in Outcomes :
             /\ Issue(Cmd("mise list", name))
             /\ IF ok /\ alreadyInstalled(miseList(miseInstalled, miseGlobal, name))
                THEN Say({Msg("already installed via mise", name)}) /\ ToolLoop(idx + 1)
                ELSE Say({Msg("Installing", tool)}) /\ Go("mise_install", idx)
    /\ UNCHANGED <<fixedVars, miseVars, path, sshVars, files>>

\* the catch block printing nothing
FailedSilently(tool) == {}

FailedToInstall(tool) ==
    {Msg("Warning: Failed to install via mise", tool),
     Msg("You can manually install later with: mise use -g", tool)}

\* installMiseTools: mise install <tool>
MiseInstall ==
    /\ pc = "mise_install"
    /\ LET tool == config(variant).mise_tools[idx]
       IN  \E ok \in Outcomes :
             /\ Issue(Cmd("mise install", tool))
             /\ IF ok
                THEN /\ miseInstalled' = [miseInstalled EXCEPT
                            ![toolName(tool)] = @ \cup {toolVersion(tool)}]
                     /\ Go("mise_use", idx)
                     /\ UNCHANGED out
                ELSE /\ UNCHANGED miseInstalled
                     /\ Say(FailedToInstall(tool))
                     /\ ToolLoop(idx + 1)
    /\ UNCHANGED <<fixedVars, miseGlobal, path, sshVars, files>>

\* installMiseTools: mise use -g <tool>
MiseUse ==
    /\ pc = "mise_use"
    /\ LET tool == config(variant).mise_tools[idx]
       IN  \E ok \in Outcomes :
             /\ Issue(Cmd("mise use -g", tool))
             /\ IF ok
                THEN /\ miseGlobal' = [miseGlobal EXCEPT ![toolName(tool)] = toolVersion(tool)]
                     /\ miseInstalled' = [miseInstalled EXCEPT
                            ![toolName(tool)] = @ \cup {toolVersion(tool)}]
                     /\ Say({Msg("installed successfully", toolName(tool))})
                ELSE /\ UNCHANGED miseVars
                     /\ Say(FailedToInstall(tool))
             /\ ToolLoop(idx + 1)
    /\ UNCHANGED <<fixedVars, path, sshVars, files>>

\* `mise where uv` answers when mise holds an installation of uv
miseWhereUv(ok) == ok /\ miseInstalled[<<"uv">>] # {}

\* installUvTools: const uvPath = await getUvPath()  (uv revision)
UvPath ==
    /\ pc = "uv_path"
    /\ \E ok \in Outcomes :
         /\ Issue(Cmd("mise where", <<"uv">>))
         /\ IF miseWhereUv(ok) THEN Go("uv_check", 1) ELSE Throw(Cmd("mise where", <<"uv">>))
    /\ UNCHANGED <<fixedVars, out, miseVars, path, sshVars, files>>

UvLoop(i) == IF i <= Len(config(variant).uv_tools) THEN Go("uv_check", i) ELSE Return

\* installUvTools: commandExists(tool)
UvCheck ==
    /\ pc = "uv_check"
    /\ IF idx > Len(config(variant).uv_tools)
       THEN Return /\ UNCHANGED <<log, out>>
       ELSE LET tool == config(variant).uv_tools[idx]
            IN  /\ Issue(Cmd("which", tool))
                /\ IF commandExists(tool)
                   THEN Say({Msg("already installed", tool)}) /\ UvLoop(idx + 1)
                   ELSE Say({Msg("Installing", tool)}) /\ Go("uv_install", idx)
    /\ UNCHANGED <<fixedVars, miseVars, path, sshVars, files>>

\* installUvTools: uv tool install <tool>, its failure caught
UvInstall ==
    /\ pc = "uv_install"
    /\ LET tool == config(variant).uv_tools[idx]
       IN  \E ok \in Outcomes :
             /\ Issue(Cmd("uv tool install", tool))
             /\ IF ok
                THEN path' = path \cup {tool} /\ Say({Msg("installed successfully", tool)})
                ELSE UNCHANGED path /\ Say({Msg("Warning: Failed to install via uv", tool)})
             /\ UvLoop(idx + 1)
    /\ UNCHANGED <<fixedVars, miseVars, sshVars, files>>

BunLoop(i) == IF i <= Len(config(variant).bun_global) THEN Go("bun_check", i) ELSE Return

\* installBunGlobals: commandExists(cmdName)
BunCheck ==
    /\ pc = "bun_check"
    /\ IF idx > Len(config(variant).bun_global)
       THEN Return /\ Say({Msg("No bun global packages configured", <<>>)}) /\ UNCHANGED log
       ELSE LET pkg == config(variant).bun_global[idx]
            IN  /\ Issue(Cmd("which", cmdName(pkg)))
                /\ IF commandExists(cmdName(pkg))
                   THEN Say({Msg("already installed", pkg)}) /\ BunLoop(idx + 1)
                   ELSE Say({Msg("Installing", pkg)}) /\ Go("bun_install", idx)
    /\ UNCHANGED <<fixedVars, miseVars, path, sshVars, files>>

\* installBunGlobals: await $`bun install -g ${pkg}`, not inside a try
BunInstall ==
    /\ pc = "bun_install"
    /\ LET pkg == config(variant).bun_global[idx]
       IN  \E ok \in Outcomes :
             /\ Issue(Cmd("bun install -g", pkg))
             /\ IF ok
                THEN path' = path \cup {BinOf(pkg)} /\ BunLoop(idx + 1)
                ELSE UNCHANGED path /\ Throw(Cmd("bun install -g", pkg))
    /\ UNCHANGED <<fixedVars, out, miseVars, sshVars, files>>

\* configureProfiles (no subprocess)
Profiles ==
    /\ pc = "profiles"
    /\ files' = configureProfiles(variant, isWindows, files)
    /\ Return
    /\ UNCHANGED <<fixedVars, log, out, miseVars, path, sshVars>>

UnableToList(section) == Msg("(unable to list)", section)

\* showSummary: mise list
SumMise ==
    /\ pc = "sum_mise"
    /\ \E ok \in Outcomes :
         /\ Issue(Cmd("mise list", <<>>))
         /\ IF ok THEN UNCHANGED out ELSE Say({UnableToList(<<"mise">>)})
    /\ Go(IF variant = "ts_ssh" THEN "sum_bun"
          ELSE IF variant = "ts_uv" THEN "sum_uvpath" ELSE "sum_uv", 0)
    /\ UNCHANGED <<fixedVars, miseVars, path, sshVars, files>>

\* bun pm ls -g awaited outside a try
SumBunUncaught ==
    /\ pc = "sum_bun"
    /\ \E ok \in Outcomes :
         /\ Issue(Cmd("bun pm ls -g", <<>>))
         /\ IF ok THEN Return ELSE Throw(Cmd("bun pm ls -g", <<>>))
    /\ UNCHANGED <<fixedVars, out, miseVars, path, sshVars, files>>

\* showSummary: bun pm ls -g
SumBun ==
    /\ pc = "sum_bun"
    /\ \E ok \in Outcomes :
         /\ Issue(Cmd("bun pm ls -g", <<>>))
         /\ IF ok THEN UNCHANGED out ELSE Say({UnableToList(<<"bun">>)})
    /\ Return
    /\ UNCHANGED <<fixedVars, miseVars, path, sshVars, files>>

\* showSummary: getUvPath() inside the try of the UV section (uv revision)
SumUvPath ==
    /\ pc = "sum_uvpath"
    /\ \E ok \in Outcomes :
         /\ Issue(Cmd("mise where", <<"uv">>))
         /\ IF miseWhereUv(ok)
            THEN UNCHANGED out /\ Go("sum_uv", 0)
            ELSE Say({UnableToList(<<"uv">>)}) /\ Return
    /\ UNCHANGED <<fixedVars, miseVars, path, sshVars, files>>

\* showSummary: uv tool list
SumUv ==
    /\ pc = "sum_uv"
    /\ \E ok \in Outcomes :
         /\ Issue(Cmd("uv tool list", <<>>))
         /\ IF ok THEN UNCHANGED out ELSE Say({UnableToList(<<"uv">>)})
    /\ Return
    /\ UNCHANGED <<fixedVars, miseVars, path, sshVars, files>>

\* setupSSHKey: the opt-in prompt and the look for id_ed25519.pub
SshPrompt ==
    /\ pc = "ssh_prompt"
    /\ \E a \in Answers :
         /\ Issue(Cmd("prompt ssh", a))
         /\ IF optsIn(a)
            THEN IF sshPub # "none"
                 THEN Say({Msg("Existing SSH key found!", <<>>)}) /\ Go("ssh_show", 0)
                 ELSE Say({Msg("Generating new SSH key (ed25519)...", <<>>)}) /\ Go("ssh_email", 0)
            ELSE Say({Msg("Skipping SSH key setup.", <<>>)}) /\ Return
    /\ UNCHANGED <<fixedVars, miseVars, path, sshVars, files>>

\* setupSSHKey: the email prompt
SshEmail ==
    /\ pc = "ssh_email"
    /\ \E e \in Emails :
         /\ Issue(Cmd("prompt email", e))
         /\ IF e # <<>>
            THEN UNCHANGED out /\ Go("ssh_keygen", 0)
            ELSE Say({Msg("No email provided, skipping SSH key generation.", <<>>)})
                 /\ Go("ssh_show", 0)
    /\ UNCHANGED <<fixedVars, miseVars, path, sshVars, files>>

\* setupSSHKey: ssh-keygen -t ed25519 -C email -f id_ed25519 -N "", not inside a try
SshKeygen ==
    /\ pc = "ssh_keygen"
    /\ \E ok \in Outcomes :
         /\ Issue(Cmd("ssh-keygen", log[Len(log)].arg))
         /\ IF ok
            THEN /\ sshPriv' = IF sshPriv = "none" THEN "new" ELSE "overwritten"
                 /\ sshPub' = IF sshPub = "none" THEN "new" ELSE "overwritten"
                 /\ Say({Msg("SSH key generated!", <<>>)})
                 /\ Go("ssh_show", 0)
            ELSE /\ UNCHANGED <<sshVars, out>>
                 /\ Throw(Cmd("ssh-keygen", log[Len(log)].arg))
    /\ UNCHANGED <<fixedVars, miseVars, path, files>>

\* setupSSHKey: display the public key if it exists
SshShow ==
    /\ pc = "ssh_show"
    /\ IF sshPub # "none"
       THEN Say({Msg("Your SSH public key (copy this to GitHub):", <<>>)})
       ELSE UNCHANGED out
    /\ Return
    /\ UNCHANGED <<fixedVars, log, miseVars, path, sshVars, files>>

\* showNextSteps (uv revision): instructions only
NextSteps ==
    /\ pc = "next_steps"
    /\ Say({Msg("Run: aftr setup", <<>>)})
    /\ Return
    /\ UNCHANGED <<fixedVars, log, miseVars, path, sshVars, files>>

\* aftr setup awaited outside a try
AftrSetupUncaught ==
    /\ pc = "aftr_setup"
    /\ \E ok \in Outcomes :
         /\ Issue(Cmd("aftr setup", <<>>))
         /\ IF ok THEN Return ELSE Throw(Cmd("aftr setup", <<>>))
    /\ UNCHANGED <<fixedVars, out, miseVars, path, sshVars, files>>

\* runAftrSetup (aftr revision): aftr setup, its failure caught
AftrSetup ==
    /\ pc = "aftr_setup"
    /\ \E ok \in Outcomes :
         /\ Issue(Cmd("aftr setup", <<>>))
         /\ IF ok THEN UNCHANGED out
            ELSE Say({Msg("Note: aftr setup exited with code", <<>>)})
    /\ Return
    /\ UNCHANGED <<fixedVars, miseVars, path, sshVars, files>>

\* the commands one revision's manifest can put on the execution path
PathCmds(v) ==
    {BinOf(config(v).bun_global[i]) : i \in 1..Len(config(v).bun_global)}
      \cup {config(v).uv_tools[i] : i \in 1..Len(config(v).uv_tools)}

\* the machine before the first run: uv in any state of the version manager (any
\* versions installed, any or no version in the global config), node absent or
\* installed and active; any of the manifest's commands on the path; no profile yet
InitMachine ==
    /\ miseInstalled \in [MiseNames -> SUBSET (UNION {AvailVersions(n) : n \in MiseNames})]
    /\ \A n \in MiseNames : miseInstalled[n] \subseteq AvailVersions(n)
    /\ miseGlobal \in [MiseNames -> {NoVersion} \cup UNION {AvailVersions(n) : n \in MiseNames}]
    /\ \A n \in MiseNames : miseGlobal[n] \in {NoVersion} \cup AvailVersions(n)
    /\ miseInstalled[<<"node">>] = {miseGlobal[<<"node">>]} \ {NoVersion}
    /\ path \in SUBSET PathCmds(variant)
    /\ files = [f \in ProfileFiles |-> Absent]
    /\ world0 = [installed |-> miseInstalled, global |-> miseGlobal, path |-> path]

InitRun ==
    /\ pc = "load" /\ mainIdx = 1 /\ idx = 0 /\ run = 1 /\ prevEnded = "none"
    /\ exitCode = -1 /\ cause = NoCmd /\ log = <<>> /\ out = {}
    /\ runs = 0

\* one run of any revision, on a machine whose subprocesses can fail
InitProv ==
    /\ variant \in TsVariants
    /\ isWindows \in BOOLEAN
    /\ cfgState \in {"valid", "missing", "unparsable"}
    /\ flaky = TRUE
    /\ InitRun
    /\ sshPriv \in {"none", "old"}
    /\ sshPub \in {"none", "old"}
    /\ variant # "ts_ssh" => sshPriv = "none" /\ sshPub = "none"
    /\ InitMachine
    /\ BootIdle

NextProv ==
    \/ LoadConfig \/ MainCall \/ MainDone
    \/ MiseTrust \/ MiseList \/ MiseInstall \/ MiseUse
    \/ UvPath \/ UvCheck \/ UvInstall
    \/ BunCheck \/ BunInstall
    \/ Profiles
    \/ SumMise \/ SumBun \/ SumUvPath \/ SumUv
    \/ SshPrompt \/ SshEmail \/ SshKeygen \/ SshShow
    \/ NextSteps \/ AftrSetup

SpecProv == InitProv /\ [][NextProv]_vars

(***************************************************************************)
(* Repeated provisioning on one machine: a run ends (complete, failed or    *)
(* interrupted by the terminal's interrupt signal at a suspension point)    *)
(* and the script is run again.  The subprocesses of this machine succeed.  *)
(***************************************************************************)
Ended == {"done", "failed", "interrupted"}

\* Ctrl-C while the process waits for a subprocess or a prompt
Interrupt ==
    /\ pc \notin Ended \cup {"idle", "load", "main", "profiles", "ssh_show"}
    /\ pc' = "interrupted"
    /\ exitCode' = 130
    /\ UNCHANGED <<fixedVars, mainIdx, idx, cause, log, out, miseVars, path, sshVars, files>>

\* the user runs the script again
StartNextRun ==
    /\ pc \in Ended
    /\ run < MaxProvRuns
    /\ run' = run + 1
    /\ prevEnded' = pc
    /\ pc' = "load" /\ mainIdx' = 1 /\ idx' = 0
    /\ exitCode' = -1 /\ cause' = NoCmd /\ log' = <<>> /\ out' = {}
    /\ UNCHANGED <<variant, isWindows, runs, cfgState, flaky, world0, bootVars,
                   miseVars, path, sshVars, files>>

InitRerun ==
    /\ variant = "ts_ssh"
    /\ isWindows \in BOOLEAN
    /\ cfgState = "valid"
    /\ flaky = FALSE
    /\ InitRun
    /\ sshPriv = "none" /\ sshPub = "none"
    /\ InitMachine
    /\ BootIdle

NextRerun ==
    \/ LoadConfig \/ MainCall \/ MainDone
    \/ MiseTrust \/ MiseList \/ MiseInstall \/ MiseUse
    \/ BunCheck \/ BunInstall
    \/ Profiles
    \/ SumMise \/ SumBun
    \/ SshPrompt \/ SshEmail \/ SshKeygen \/ SshShow
    \/ Interrupt \/ StartNextRun

SpecRerun == InitRerun /\ [][NextRerun]_vars

(***************************************************************************)
(* Properties of the Provisioning Stage.                                    *)
(***************************************************************************)
\* the commands that install something
InstallCmds == {"mise install", "uv tool install", "bun install -g"}

\* main() has called fn in this run
Reached(fn) == \E i \in 1..(mainIdx - 1) : MainSeq(variant)[i] = fn

Issued(c) == \E i \in 1..Len(log) : log[i].cmd = c

\* every manifest tool is installed and globally active at the manifest's version,
\* every global package's command is on the path, every profile holds the block once
Provisioned ==
    /\ \A i \in 1..Len(config(variant).mise_tools) :
          LET tool == config(variant).mise_tools[i]
          IN  /\ toolVersion(tool) \in miseInstalled[toolName(tool)]
              /\ miseGlobal[toolName(tool)] = toolVersion(tool)
    /\ \A i \in 1..Len(config(variant).bun_global) :
          BinOf(config(variant).bun_global[i]) \in path
    /\ \A f \in ManagedFiles(variant, isWindows) :
          files[f].exists /\ Count(files[f], markerTs(variant)) = 1

\* before the first run the version manager held none of the manifest's tools
NothingInstalledAtStart ==
    \A n \in MiseNames : world0.installed[n] = {} /\ world0.global[n] = NoVersion

\* C3: a second provisioning run after a complete first run whose installs all
\* succeeded issues no install command (no mise install, uv tool install, bun install -g).
C3_SecondRunInstallsNothing ==
    (run = 2 /\ prevEnded = "done") => \A i \in 1..Len(log) : log[i].cmd \notin InstallCmds

\* C4: in every execution of main(), configureProfiles and showSummary are reached and
\* the process does not exit with code 1 because an install or the uv lookup failed.
C4_FailureTolerant ==
    (cfgState = "valid" /\ pc \in {"done", "failed"}) =>
        /\ Reached("configureProfiles")
        /\ Reached("showSummary")
        /\ ~(exitCode = 1 /\ cause.cmd \in InstallCmds \cup {"mise use -g", "mise where"})

\* C9: after a run interrupted at a suspension point, a complete run ends in the state
\* one uninterrupted run reaches from a machine without the tools: everything provisioned.
C9_ResumeProvisions ==
    (run = 2 /\ prevEnded = "interrupted" /\ pc = "done" /\ NothingInstalledAtStart)
        => Provisioned

\* what C9 compares with: one uninterrupted run on such a machine provisions everything
UninterruptedRunProvisions ==
    (run = 1 /\ pc = "done" /\ NothingInstalledAtStart) => Provisioned

\* a key file was at ~/.ssh/id_ed25519(.pub) before the run
KeyExisted == sshPriv \in {"old", "overwritten"} \/ sshPub \in {"old", "overwritten"}

OptedIn == \E i \in 1..Len(log) : log[i].cmd = "prompt ssh" /\ optsIn(log[i].arg)

\* C10: when the user opts in and a key pair (private and/or public key file) exists,
\* ssh-keygen is never invoked, the key files are not modified, and once setupSSHKey
\* has returned 'Existing SSH key found!' has been reported.
C10_ExistingKeyKept ==
    (variant = "ts_ssh" /\ KeyExisted /\ OptedIn) =>
        /\ ~Issued("ssh-keygen")
        /\ sshPriv # "overwritten" /\ sshPub # "overwritten"
        /\ pc \in {"main", "done"} => Msg("Existing SSH key found!", <<>>) \in out

(***************************************************************************)
(* The macOS Bootstrap Stage: setup.sh, run under "set -e".  One step per   *)
(* statement of the script; a for loop takes one step per iteration.        *)
(***************************************************************************)
\* config.json as the bootstrap model reads it
ShConfig ==
    [ taps   |-> <<"tapA">>,
      common |-> <<"git", "mise">>,
      macos  |-> <<"mise", "bun">>,
      fonts  |-> <<"font">> ]

ShItems == {"tapA", "git", "mise", "bun", "font"}

ShCmd(c, a, ok) == [cmd |-> c, arg |-> a, ok |-> ok]

\* $(jq -r '<field>[]' "$CONFIG_PATH") as the word list of a for loop: when jq
\* fails the list is empty and "set -e" does not see the failure
jqItems(field) == IF shCfg = "valid" THEN ShConfig[field] ELSE <<>>

\* the script ends with this exit code
ShAbort(code) == shPc' = "exit" /\ shExit' = code

\* a brew subcommand: "command not found" when Homebrew is not on the PATH
brewOutcomes == IF shBrew THEN BOOLEAN ELSE {FALSE}
brewFailure == IF shBrew THEN 1 ELSE 127

\* neither the profile code nor setup.ts is running
ProfIdle ==
    /\ variant = "ts_ssh" /\ isWindows = FALSE /\ runs = 0
    /\ files = [f \in ProfileFiles |-> Absent]

\* if [ ! -f "$CONFIG_PATH" ]; then ... exit 1
ShCheckConfig ==
    /\ shPc = "config"
    /\ IF shCfg = "missing"
       THEN ShAbort(1)
       ELSE shPc' = "jq" /\ UNCHANGED shExit
    /\ UNCHANGED <<shIdx, shCfg, shSetupTs, shJq, shBrew, brewHas, shLog>>
    /\ UNCHANGED <<profVars, provVars, psVars, toolVars>>

\* if ! command -v jq: brew install jq, or exit 1 without Homebrew
ShCheckJq ==
    /\ shPc = "jq"
    /\ IF shJq
       THEN shPc' = "homebrew" /\ UNCHANGED <<shExit, shJq, shLog>>
       ELSE IF shBrew
            THEN \E ok \in BOOLEAN :
                    /\ shLog' = Append(shLog, ShCmd("brew install", "jq", ok))
                    /\ shJq' = ok
                    /\ IF ok THEN shPc' = "homebrew" /\ UNCHANGED shExit ELSE ShAbort(1)
            ELSE ShAbort(1) /\ UNCHANGED <<shJq, shLog>>
    /\ UNCHANGED <<shIdx, shCfg, shSetupTs, shBrew, brewHas>>
    /\ UNCHANGED <<profVars, provVars, psVars, toolVars>>

\* if command -v brew ... else /bin/bash -c "$(curl -fsSL .../install.sh)"
\* a failed download leaves an empty script, which /bin/bash -c runs with status 0
ShHomebrew ==
    /\ shPc = "homebrew"
    /\ IF shBrew
       THEN shPc' = "taps" /\ UNCHANGED <<shExit, shBrew, shLog>>
       ELSE \E r \in {"installed", "failed", "no download"} :
               /\ shLog' = Append(shLog, ShCmd("install Homebrew", "brew", r = "installed"))
               /\ shBrew' = (r = "installed")
               /\ IF r = "failed" THEN ShAbort(1) ELSE shPc' = "taps" /\ UNCHANGED shExit
    /\ shIdx' = 1
    /\ UNCHANGED <<shCfg, shSetupTs, shJq, brewHas>>
    /\ UNCHANGED <<profVars, provVars, psVars, toolVars>>

\* one iteration of "for x in $(jq ...)": the presence query, then the install
\* command when the query was false; under "set -e" a failing install ends the script
ShLoop(field, next, query, install) ==
    LET items == jqItems(field) IN
    /\ IF shIdx > Len(items)
       THEN shPc' = next /\ shIdx' = 1 /\ UNCHANGED <<shLog, shExit, brewHas>>
       ELSE LET x == items[shIdx] IN
            IF shBrew /\ x \in brewHas
            THEN /\ shLog' = Append(shLog, ShCmd(query, x, TRUE))
                 /\ shIdx' = shIdx + 1
                 /\ UNCHANGED <<shPc, shExit, brewHas>>
            ELSE \E ok \in brewOutcomes :
                    /\ shLog' = shLog \o <<ShCmd(query, x, FALSE), ShCmd(install, x, ok)>>
                    /\ IF ok
                       THEN /\ brewHas' = brewHas \cup {x}
                            /\ shIdx' = shIdx + 1
                            /\ UNCHANGED <<shPc, shExit>>
                       ELSE ShAbort(brewFailure) /\ UNCHANGED <<brewHas, shIdx>>
    /\ UNCHANGED <<shCfg, shSetupTs, shJq, shBrew>>
    /\ UNCHANGED <<profVars, provVars, psVars, toolVars>>

\* for tap in $(jq -r '.buckets.brew[]' ...)
ShTaps == shPc = "taps" /\ ShLoop("taps", "common", "brew tap | grep", "brew tap")

\* for pkg in $(jq -r '.packages.common.brew[]' ...)
ShCommon == shPc = "common" /\ ShLoop("common", "macos", "brew list", "brew install")

\* for pkg in $(jq -r '.packages.macos.brew // [] | .[]' ...)
ShMacos == shPc = "macos" /\ ShLoop("macos", "fonts", "brew list", "brew install")

\* for font in $(jq -r '.packages.fonts.brew_cask[]' ...)
ShFonts ==
    shPc = "fonts" /\ ShLoop("fonts", "summary", "brew list --cask", "brew install --cask")

\* brew list --formula | sed ...: the status of the pipeline is that of sed
ShSummary ==
    /\ shPc = "summary"
    /\ shLog' = Append(shLog, ShCmd("brew list --formula", "", shBrew))
    /\ shPc' = "handoff"
    /\ UNCHANGED <<shIdx, shCfg, shSetupTs, shJq, shBrew, brewHas, shExit>>
    /\ UNCHANGED <<profVars, provVars, psVars, toolVars>>

\* exit codes of "bun run setup.ts": 127 without bun; setup.ts throws in
\* loadConfig on a config it cannot parse; otherwise it ends with 0 or 1
bunRunCodes ==
    IF "bun" \notin brewHas THEN {127}
    ELSE IF shCfg = "unparsable" THEN {1}
    ELSE {0, 1}

\* if [ -f "$SETUP_TS_PATH" ]; then bun run "$SETUP_TS_PATH" else ... exit 1
ShHandoff ==
    /\ shPc = "handoff"
    /\ IF shSetupTs
       THEN \E code \in bunRunCodes :
               /\ shLog' = Append(shLog, ShCmd("bun run", "setup.ts", code = 0))
               /\ ShAbort(code)
       ELSE ShAbort(1) /\ UNCHANGED shLog
    /\ UNCHANGED <<shIdx, shCfg, shSetupTs, shJq, shBrew, brewHas>>
    /\ UNCHANGED <<profVars, provVars, psVars, toolVars>>

\* any Mac: with or without jq and Homebrew, any part of the manifest present
InitSh ==
    /\ shPc = "config" /\ shIdx = 0 /\ shLog = <<>> /\ shExit = -1
    /\ shCfg \in {"missing", "unparsable", "valid"}
    /\ shSetupTs \in BOOLEAN
    /\ shJq \in BOOLEAN
    /\ shBrew \in BOOLEAN
    /\ brewHas \in SUBSET ShItems
    /\ ~shBrew => brewHas = {}
    /\ ProfIdle /\ ProvIdle /\ PsIdle /\ ToolIdle

NextSh ==
    \/ ShCheckConfig \/ ShCheckJq \/ ShHomebrew
    \/ ShTaps \/ ShCommon \/ ShMacos \/ ShFonts
    \/ ShSummary \/ ShHandoff

SpecSh == InitSh /\ [][NextSh]_vars

(***************************************************************************)
(* Properties of the macOS Bootstrap Stage                                  *)
(***************************************************************************)
\* the install commands of list items, and all install commands of setup.sh
ShItemInstalls == {"brew tap", "brew install", "brew install --cask"}
ShInstallCmds == ShItemInstalls \cup {"install Homebrew"}

ShIssued(c) == \E i \in 1..Len(shLog) : shLog[i].cmd = c

\* the install command of a manifest item failed although Homebrew is there
ShItemFailed ==
    \E i \in 1..Len(shLog) :
        shLog[i].cmd \in ShItemInstalls /\ shLog[i].arg \in ShItems /\ ~shLog[i].ok /\ shBrew

\* C5: in the Bootstrap Stage the failing install command of one item does not
\* stop the script: the remaining items are still handled and the handoff to
\* the Provisioning Stage is reached (setup.sh ends only after its summary and
\* handoff, also when an item failed to install).
C5_BootstrapContinues ==
    (ShItemFailed /\ shPc = "exit") => ShIssued("brew list --formula")

\* C6: when config.json is missing or cannot be parsed, setup.sh issues no
\* Homebrew, jq or brew install command and ends with a non-zero exit code.
C6_NoInstallWithoutManifest ==
    shCfg # "valid" =>
        /\ \A i \in 1..Len(shLog) : shLog[i].cmd \notin ShInstallCmds
        /\ shPc = "exit" => shExit # 0

(***************************************************************************)
(* The Windows Bootstrap Stage: setup.ps1 with its handoff, and loadConfig  *)
(* of the staged setup.ts.  File contents are named: "L" the manifest in    *)
(* the repository, "R" the manifest on GitHub, "S" a manifest staged by an  *)
(* earlier run, "P" a manifest at %TEMP%\config, "garbage" invalid JSON.    *)
(***************************************************************************)
\* config.json as the bootstrap reads it (every manifest has this shape)
PsManifest ==
    [ buckets |-> <<"extras">>,
      common  |-> <<"gh">>,
      windows |-> <<"mise", "gh">>,
      fonts   |-> <<"font">> ]

ScoopItems == {"extras", "git", "gh", "mise", "font", "bun"}

PsCmd(c, a, ok) == [cmd |-> c, arg |-> a, ok |-> ok]

\* ConvertFrom-Json / JSON.parse of a file content: "none" when it fails
parseJson(content) == IF content \in {"absent", "garbage"} THEN "none" ELSE content

\* $packages: the three lists appended
packages == PsManifest.common \o PsManifest.windows \o PsManifest.fonts

\* a scoop subcommand cannot succeed without Scoop
scoopOutcomes == IF psScoop THEN BOOLEAN ELSE {FALSE}

\* every answer taken as a confirmation
psConfirmsAlways(a) == TRUE

\* $response -eq "" -or $response -match "^[Yy]"
psConfirms(a) == a = <<>> \/ a[1] \in {"Y", "y"}

\* Load configuration: the local file when $PSScriptRoot is set and the file
\* parses, else Invoke-RestMethod, else exit 1
PsLoadConfig ==
    /\ psPc = "config"
    /\ IF psScriptRoot /\ parseJson(psLocal) # "none"
       THEN /\ psConfig' = parseJson(psLocal)
            /\ psPc' = "scoop"
            /\ UNCHANGED <<psLog, psExit>>
       ELSE \E ok \in BOOLEAN :
               /\ psLog' = Append(psLog, PsCmd("Invoke-RestMethod", "config.json", ok))
               /\ IF ok
                  THEN psConfig' = "R" /\ psPc' = "scoop" /\ UNCHANGED psExit
                  ELSE psPc' = "exit" /\ psExit' = 1 /\ UNCHANGED psConfig
    /\ UNCHANGED <<psIdx, psScriptRoot, psLocal, psSourceTs, psScoop, scoopHas, psBuckets,
                   psInstalledApps, psNativeBun, psMiseBun, psMiseToml, psTemp,
                   psParentCfg, psLoaded>>
    /\ UNCHANGED <<profVars, provVars, shVars, toolVars>>

\* the git check made before Scoop is installed
PsScoopAfterGit ==
    /\ psPc = "scoop"
    /\ IF psScoop
       THEN UNCHANGED <<psScoop, psLog>>
       ELSE \E ok \in BOOLEAN :
               /\ psLog' = psLog \o <<PsCmd("scoop list", "git", FALSE),
                                      PsCmd("install Scoop", "scoop", ok)>>
               /\ psScoop' = ok
    /\ psPc' = "git"
    /\ UNCHANGED <<psIdx, psScriptRoot, psLocal, psSourceTs, psConfig, scoopHas, psBuckets,
                   psInstalledApps, psNativeBun, psMiseBun, psMiseToml, psTemp,
                   psParentCfg, psLoaded, psExit>>
    /\ UNCHANGED <<profVars, provVars, shVars, toolVars>>

\* Install Scoop (if not already installed)
PsScoop ==
    /\ psPc = "scoop"
    /\ IF psScoop
       THEN UNCHANGED <<psScoop, psLog>>
       ELSE \E ok \in BOOLEAN :
               /\ psLog' = Append(psLog, PsCmd("install Scoop", "scoop", ok))
               /\ psScoop' = ok
    /\ psPc' = "git"
    /\ UNCHANGED <<psIdx, psScriptRoot, psLocal, psSourceTs, psConfig, scoopHas, psBuckets,
                   psInstalledApps, psNativeBun, psMiseBun, psMiseToml, psTemp,
                   psParentCfg, psLoaded, psExit>>
    /\ UNCHANGED <<profVars, provVars, shVars, toolVars>>

\* a presence query and, when it was false, the install command through
\* Invoke-CommandWithOutput, whose status is ignored
PsEnsure(present, query, install, x) ==
    IF present
    THEN /\ psLog' = Append(psLog, PsCmd(query, x, TRUE))
         /\ UNCHANGED scoopHas
    ELSE \E ok \in scoopOutcomes :
            /\ psLog' = psLog \o <<PsCmd(query, x, FALSE), PsCmd(install, x, ok)>>
            /\ scoopHas' = IF ok THEN scoopHas \cup {x} ELSE scoopHas

\* Install git (required for adding buckets)
PsGit ==
    /\ psPc = "git"
    /\ PsEnsure(psScoop /\ "git" \in scoopHas, "scoop list", "scoop install", "git")
    /\ psPc' = "bucket list"
    /\ UNCHANGED <<psIdx, psScriptRoot, psLocal, psSourceTs, psConfig, psScoop, psBuckets,
                   psInstalledApps, psNativeBun, psMiseBun, psMiseToml, psTemp,
                   psParentCfg, psLoaded, psExit>>
    /\ UNCHANGED <<profVars, provVars, shVars, toolVars>>

\* what setup.ps1 never writes
psFixed == <<psScriptRoot, psLocal, psSourceTs, psParentCfg>>

\* $buckets = scoop bucket list
PsBucketList ==
    /\ psPc = "bucket list"
    /\ psBuckets' = IF psScoop THEN scoopHas \cap {"extras"} ELSE {}
    /\ psLog' = Append(psLog, PsCmd("scoop bucket list", "", psScoop))
    /\ psPc' = "buckets"
    /\ psIdx' = 1
    /\ UNCHANGED <<psFixed, psConfig, psScoop, scoopHas, psInstalledApps, psNativeBun,
                   psMiseBun, psMiseToml, psTemp, psLoaded, psExit>>
    /\ UNCHANGED <<profVars, provVars, shVars, toolVars>>

\* foreach ($bucket in $config.buckets.scoop): tested against $buckets
PsBucketLoop ==
    /\ psPc = "buckets"
    /\ IF psIdx > Len(PsManifest.buckets)
       THEN psPc' = "package list" /\ psIdx' = 1 /\ UNCHANGED <<psLog, scoopHas>>
       ELSE LET bucket == PsManifest.buckets[psIdx] IN
            /\ PsEnsure(bucket \in psBuckets, "$buckets | Select-String",
                        "scoop bucket add", bucket)
            /\ psIdx' = psIdx + 1
            /\ UNCHANGED psPc
    /\ UNCHANGED <<psFixed, psConfig, psScoop, psBuckets, psInstalledApps, psNativeBun,
                   psMiseBun, psMiseToml, psTemp, psLoaded, psExit>>
    /\ UNCHANGED <<profVars, provVars, shVars, toolVars>>

\* $installedApps = (scoop list | Where-Object { $_.Name }).Name, read once
PsPackageList ==
    /\ psPc = "package list"
    /\ psInstalledApps' = IF psScoop THEN scoopHas \ {"extras"} ELSE {}
    /\ psLog' = Append(psLog, PsCmd("scoop list", "", psScoop))
    /\ psPc' = "packages"
    /\ psIdx' = 1
    /\ UNCHANGED <<psFixed, psConfig, psScoop, scoopHas, psBuckets, psNativeBun,
                   psMiseBun, psMiseToml, psTemp, psLoaded, psExit>>
    /\ UNCHANGED <<profVars, provVars, shVars, toolVars>>

\* foreach ($package in $packages): tested against $installedApps
PsPackageLoop ==
    /\ psPc = "packages"
    /\ IF psIdx > Len(packages)
       THEN psPc' = "bun" /\ psIdx' = 0 /\ UNCHANGED <<psLog, scoopHas>>
       ELSE LET package == packages[psIdx] IN
            /\ PsEnsure(package \in psInstalledApps, "$installedApps -contains",
                        "scoop install", package)
            /\ psIdx' = psIdx + 1
            /\ UNCHANGED psPc
    /\ UNCHANGED <<psFixed, psConfig, psScoop, psBuckets, psInstalledApps, psNativeBun,
                   psMiseBun, psMiseToml, psTemp, psLoaded, psExit>>
    /\ UNCHANGED <<profVars, provVars, shVars, toolVars>>

\* Install bun via scoop (using pwsh)
PsBun ==
    /\ psPc = "bun"
    /\ PsEnsure(psScoop /\ "bun" \in scoopHas, "scoop list", "pwsh scoop install", "bun")
    /\ psPc' = "native bun"
    /\ UNCHANGED <<psFixed, psIdx, psConfig, psScoop, psBuckets, psInstalledApps,
                   psNativeBun, psMiseBun, psMiseToml, psTemp, psLoaded, psExit>>
    /\ UNCHANGED <<profVars, provVars, shVars, toolVars>>

\* Check for old native bun installer: Remove-Item only after the answer
PsNativeBun ==
    /\ psPc = "native bun"
    /\ IF psNativeBun
       THEN \E response \in Answers :
               /\ psLog' = Append(psLog, PsCmd("Read-Host native bun", response, TRUE))
               /\ psNativeBun' = ~psConfirms(response)
       ELSE UNCHANGED <<psLog, psNativeBun>>
    /\ psPc' = "mise bun"
    /\ UNCHANGED <<psFixed, psIdx, psConfig, psScoop, scoopHas, psBuckets,
                   psInstalledApps, psMiseBun, psMiseToml, psTemp, psLoaded, psExit>>
    /\ UNCHANGED <<profVars, provVars, shVars, toolVars>>

\* Check if bun is installed or configured via mise: uninstall and remove the
\* "bun =" line only after the answer
PsMiseBun ==
    /\ psPc = "mise bun"
    /\ IF psMiseBun # "none"
       THEN \E response \in Answers :
               IF psConfirms(response)
               THEN /\ psLog' = psLog \o
                         <<PsCmd("Read-Host mise bun", response, TRUE)>> \o
                         (IF psMiseBun = "installed"
                          THEN <<PsCmd("mise uninstall", "bun", TRUE)>> ELSE <<>>)
                    /\ psMiseBun' = "none"
                    /\ psMiseToml' = FALSE
               ELSE /\ psLog' = Append(psLog, PsCmd("Read-Host mise bun", response, TRUE))
                    /\ UNCHANGED <<psMiseBun, psMiseToml>>
       ELSE UNCHANGED <<psLog, psMiseBun, psMiseToml>>
    /\ psPc' = "stage"
    /\ UNCHANGED <<psFixed, psIdx, psConfig, psScoop, scoopHas, psBuckets,
                   psInstalledApps, psNativeBun, psTemp, psLoaded, psExit>>
    /\ UNCHANGED <<profVars, provVars, shVars, toolVars>>

\* Copy-Item -Force / Invoke-WebRequest -OutFile: the destination is replaced
\* when the source is there, and keeps what it had when the cmdlet fails
staged(source, old) == IF source = "absent" THEN old ELSE source

\* Hand off: create %TEMP%\ai-setup and its config directory, then copy from
\* disk when $PSScriptRoot is set, else download; errors do not stop the script
PsStage ==
    /\ psPc = "stage"
    /\ IF psScriptRoot
       THEN /\ psTemp' = [setupTs |-> staged(IF psSourceTs THEN "current" ELSE "absent",
                                             psTemp.setupTs),
                          config  |-> staged(psLocal, psTemp.config)]
            /\ psLog' = psLog \o <<PsCmd("Copy-Item", "setup.ts", psSourceTs),
                                   PsCmd("Copy-Item", "config.json", psLocal # "absent")>>
       ELSE \E okTs \in BOOLEAN, okConfig \in BOOLEAN :
               /\ psTemp' = [setupTs |-> staged(IF okTs THEN "current" ELSE "absent",
                                                psTemp.setupTs),
                             config  |-> staged(IF okConfig THEN "R" ELSE "absent",
                                                psTemp.config)]
               /\ psLog' = psLog \o <<PsCmd("Invoke-WebRequest", "setup.ts", okTs),
                                      PsCmd("Invoke-WebRequest", "config.json", okConfig)>>
    /\ psPc' = "bun run"
    /\ UNCHANGED <<psFixed, psIdx, psConfig, psScoop, scoopHas, psBuckets,
                   psInstalledApps, psNativeBun, psMiseBun, psMiseToml, psLoaded, psExit>>
    /\ UNCHANGED <<profVars, provVars, shVars, toolVars>>

\* loadConfig() of setup.ts with scriptDir = %TEMP%\ai-setup: first
\* <scriptDir>\..\config\config.json, then <scriptDir>\config\config.json
loadConfig ==
    IF psParentCfg # "absent"
    THEN (IF parseJson(psParentCfg) = "none" THEN "throw" ELSE parseJson(psParentCfg))
    ELSE IF psTemp.config # "absent"
    THEN (IF parseJson(psTemp.config) = "none" THEN "throw" ELSE parseJson(psTemp.config))
    ELSE "throw"

\* bun is found when Scoop, the native installer or mise provides it
bunFound == "bun" \in scoopHas \/ psNativeBun \/ psMiseBun = "installed"

\* bun run $setupTsPath: the staged script, which loads its config first
PsBunRun ==
    /\ psPc = "bun run"
    /\ LET started == bunFound /\ psTemp.setupTs # "absent" IN
       /\ psLog' = Append(psLog, PsCmd("bun run", "%TEMP%\\ai-setup\\setup.ts", started))
       /\ psLoaded' = IF started THEN loadConfig ELSE "none"
    /\ psPc' = "exit"
    /\ psExit' = 0
    /\ UNCHANGED <<psFixed, psIdx, psConfig, psScoop, scoopHas, psBuckets,
                   psInstalledApps, psNativeBun, psMiseBun, psMiseToml, psTemp>>
    /\ UNCHANGED <<profVars, provVars, shVars, toolVars>>

\* what Scoop has before the run: gh and bun each there or not, the other
\* items all there or all missing
InitScoopHas ==
    {S \cup G : S \in SUBSET {"gh", "bun"}, G \in {{}, ScoopItems \ {"gh", "bun"}}}

\* any Windows machine: run from disk (with or without a usable config.json
\* and setup.ts) or through "irm | iex"; a temp directory that is fresh or
\* left by an earlier run
InitPs ==
    /\ psPc = "config" /\ psIdx = 0 /\ psConfig = "none" /\ psLoaded = "none"
    /\ psLog = <<>> /\ psExit = -1 /\ psBuckets = {} /\ psInstalledApps = {}
    /\ psScriptRoot \in BOOLEAN
    /\ psLocal \in {"absent", "garbage", "L"}
    /\ psSourceTs \in BOOLEAN
    /\ ~psScriptRoot => psLocal = "absent" /\ psSourceTs = FALSE
    /\ psScoop \in BOOLEAN
    /\ scoopHas \in InitScoopHas
    /\ ~psScoop => scoopHas = {}
    /\ psNativeBun \in BOOLEAN
    /\ psMiseBun \in {"none", "installed", "missing"}
    /\ psMiseToml = (psMiseBun # "none")
    /\ psTemp \in [setupTs : {"absent", "stale"}, config : {"absent", "S"}]
    /\ psParentCfg \in {"absent", "P"}
    /\ ProfIdle /\ ProvIdle /\ ShIdle /\ ToolIdle

NextPs ==
    \/ PsLoadConfig \/ PsScoop \/ PsGit
    \/ PsBucketList \/ PsBucketLoop \/ PsPackageList \/ PsPackageLoop
    \/ PsBun \/ PsNativeBun \/ PsMiseBun
    \/ PsStage \/ PsBunRun

SpecPs == InitPs /\ [][NextPs]_vars

(***************************************************************************)
(* Properties of the Windows Bootstrap Stage and its handoff                *)
(***************************************************************************)
PsIssued(c) == \E i \in 1..Len(psLog) : psLog[i].cmd = c

\* C7: the manifest that loadConfig of setup.ts returns is the one $config of
\* the same setup.ps1 run was parsed from, in every way of running setup.ps1:
\* never a file staged by an earlier run, never another file found at
\* <scriptDir>\..\config\config.json.
C7_SameManifest ==
    psLoaded \notin {"none", "throw"} => psLoaded = psConfig

\* C8: when setup.ps1 starts "bun run", setup.ts and config\config.json are
\* both present in %TEMP%\ai-setup, and the script that is run is the one in
\* that directory.
C8_StagedBeforeRun ==
    (psPc = "bun run" \/ PsIssued("bun run")) =>
        /\ psTemp.setupTs # "absent"
        /\ psTemp.config # "absent"
        /\ \A i \in 1..Len(psLog) :
              psLog[i].cmd = "bun run" => psLog[i].arg = "%TEMP%\\ai-setup\\setup.ts"

(***************************************************************************)
(* Further properties of the Provisioning Stage                             *)
(***************************************************************************)
\* the answer to the SSH prompt was non-empty and did not start with y or Y
Declined ==
    \E i \in 1..Len(log) :
        log[i].cmd = "prompt ssh" /\ log[i].arg # <<>> /\ log[i].arg[1] \notin {"y", "Y"}

\* the user was asked for the label of the key and gave none
EmptyLabel == \E i \in 1..Len(log) : log[i].cmd = "prompt email" /\ log[i].arg = <<>>

\* C11: in setupSSHKey, after the user declined, or opted in and gave an empty
\* label, ssh-keygen is not invoked, nothing is thrown, and the run goes on to
\* "Setup complete!" with exit code 0.
C11_DeclineIsQuiet ==
    (variant = "ts_ssh" /\ (Declined \/ EmptyLabel)) =>
        /\ ~Issued("ssh-keygen")
        /\ pc \in {"ssh_show", "main", "done"}
        /\ exitCode \in {-1, 0}
        /\ sshPriv \notin {"new", "overwritten"} /\ sshPub \notin {"new", "overwritten"}
        /\ pc = "done" => exitCode = 0 /\ Msg("Setup complete!", <<>>) \in out

C11_Witness ==
    variant = "ts_ssh" /\ EmptyLabel /\ pc = "done" /\ exitCode = 0

\* the step made one subprocess call or prompt
IssuedNow == Len(log') = Len(log) + 1
LastCmd == log'[Len(log')]

\* C12: in installMiseTools a missing tool gets 'mise install <tool>' and then
\* 'mise use -g <tool>'; the activation is only attempted once the install
\* succeeded; a failure of either command is caught: it prints a warning with
\* the manual command 'mise use -g <tool>', does not end the run, and the loop
\* goes on with the next tool.
MiseStep ==
    (IssuedNow /\ LastCmd.cmd \in {"mise install", "mise use -g"}) =>
        LET tool == LastCmd.arg
            name == toolName(tool)
            succeeded == IF LastCmd.cmd = "mise install"
                         THEN pc' = "mise_use"
                         ELSE Msg("installed successfully", name) \in out'
            nextTool == \/ pc' = "mise_list" /\ idx' = idx + 1
                        \/ pc' = "main" /\ idx = Len(config(variant).mise_tools)
        IN  /\ tool = config(variant).mise_tools[idx]
            /\ LastCmd.cmd = "mise use -g" => log[Len(log)] = Cmd("mise install", tool)
            /\ pc' = "mise_use" => toolVersion(tool) \in miseInstalled'[name]
            /\ pc' # "failed" /\ exitCode' = -1
            /\ ~succeeded =>
                  /\ Msg("You can manually install later with: mise use -g", tool) \in out'
                  /\ Msg("Warning: Failed to install via mise", tool) \in out'
                  /\ UNCHANGED miseVars
            /\ (~succeeded \/ LastCmd.cmd = "mise use -g") => nextTool

C12_MiseFailureIsWarning == [][MiseStep]_vars

C12_Witness ==
    /\ pc = "done"
    /\ \E i \in 2..Len(log) :
          /\ log[i].cmd = "mise use -g" /\ log[i - 1] = Cmd("mise install", log[i].arg)
          /\ Msg("You can manually install later with: mise use -g", log[i].arg) \in out
          /\ miseGlobal[toolName(log[i].arg)] # toolVersion(log[i].arg)

\* the part of an identifier after its last "/": the whole of it without one
RECURSIVE AfterLastSlash(_)
AfterLastSlash(pkg) ==
    IF \A i \in 1..Len(pkg) : pkg[i] # "/" THEN pkg
    ELSE AfterLastSlash(Tail(pkg))

\* C13: for every package of bun_global, installBunGlobals looks up the part of
\* the identifier after its last "/" on the execution path and issues
\* 'bun install -g <pkg>' if and only if that command is not found at that time.
BunStep ==
    /\ pc = "bun_check" /\ IssuedNow =>
          LET pkg == config(variant).bun_global[idx]
          IN  /\ LastCmd = Cmd("which", AfterLastSlash(pkg))
              /\ pc' = "bun_install" <=> AfterLastSlash(pkg) \notin path
              /\ pc' # "bun_install" =>
                    \/ pc' = "bun_check" /\ idx' = idx + 1
                    \/ pc' = "main" /\ idx = Len(config(variant).bun_global)
    /\ pc = "bun_install" =>
          /\ IssuedNow
          /\ LastCmd = Cmd("bun install -g", config(variant).bun_global[idx])
          /\ log[Len(log)] = Cmd("which", AfterLastSlash(LastCmd.arg))
    /\ (IssuedNow /\ LastCmd.cmd = "bun install -g") => pc = "bun_install"

C13_InstallIffNotOnPath == [][BunStep]_vars

C13_Witness ==
    /\ variant = "ts_ssh"
    /\ \E i \in 1..Len(log) : \E j \in 1..Len(log) :
          /\ i < j
          /\ log[i] = Cmd("which", <<"codex">>)
          /\ log[i + 1] = Cmd("which", <<"claude-code">>)
          /\ log[j] = Cmd("bun install -g", <<"@anthropic-ai", "/", "claude-code">>)

\* the positions of showSummary and the section each one lists
SumPcs == {"sum_mise", "sum_bun", "sum_uvpath", "sum_uv"}
SumSection(p) == IF p = "sum_mise" THEN <<"mise">> ELSE IF p = "sum_bun" THEN <<"bun">> ELSE <<"uv">>

\* C15: showSummary never fails the run: a failing 'mise list', 'bun pm ls -g',
\* 'uv tool list' or uv path lookup only prints '(unable to list)' for its
\* section; the other section is attempted after the first whatever happened,
\* and main goes on with the sub-step after showSummary.
SummaryStep ==
    pc \in SumPcs =>
        /\ IssuedNow
        /\ pc' \in SumPcs \cup {"main"}
        /\ exitCode' = -1 /\ cause' = NoCmd
        /\ out' = out \/ out' = out \cup {UnableToList(SumSection(pc))}
        /\ pc = "sum_mise" => pc' \in SumPcs \ {"sum_mise"}
        /\ pc = "sum_uvpath" /\ out' = out => pc' = "sum_uv"
        /\ pc' = "main" =>
              /\ mainIdx' = Len(MainSeq(variant))
              /\ MainSeq(variant)[mainIdx'] \in {"setupSSHKey", "showNextSteps", "runAftrSetup"}

C16_SummaryIsLast ==
    pc \in SumPcs =>
        \A i \in 1..Len(MainSeq(variant)) :
            MainSeq(variant)[i] # "showSummary" => i < mainIdx - 1

\* what does hold: the installs and the profiles come before the summary
SummaryAfterInstalls ==
    pc \in SumPcs =>
        \A i \in 1..Len(MainSeq(variant)) :
            MainSeq(variant)[i] \in {"installMiseTools", "installUvTools",
                                     "installBunGlobals", "configureProfiles"}
                => i < mainIdx - 1

(***************************************************************************)
(* Further properties of the Bootstrap Stage                                *)
(***************************************************************************)
\* C14: the install commands of one bootstrap run name each package identifier
\* at most once, also when the manifest lists the identifier in two categories
\* and the package was absent at the start of the run.
C14_InstallOncePerIdentifier ==
    \A i \in 1..Len(psLog) : \A j \in 1..Len(psLog) :
        (i < j /\ psLog[i].cmd = "scoop install" /\ psLog[j].cmd = "scoop install")
            => psLog[i].arg # psLog[j].arg

\* the same for setup.sh, whose loops query Homebrew before each install
ShInstallOncePerIdentifier ==
    \A i \in 1..Len(shLog) : \A j \in 1..Len(shLog) :
        (i < j /\ shLog[i].cmd = "brew install" /\ shLog[j].cmd = "brew install")
            => shLog[i].arg # shLog[j].arg

\* C19: on a Mac without Homebrew, setup.sh runs the Homebrew installer,
\* whatever else is missing (jq included); it never ends before that step
\* telling the user to install Homebrew first.
C19_HomebrewInstalledAutomatically ==
    (shPc = "exit" /\ shCfg # "missing" /\ ~shBrew) => ShIssued("install Homebrew")

\* with jq present the installer is always reached
HomebrewInstalledWhenJqPresent ==
    (shPc = "exit" /\ shCfg # "missing" /\ ~shBrew /\ shJq) => ShIssued("install Homebrew")

(***************************************************************************)
(* The publish script: publish.ts.  Versions are strings, kept as sequences *)
(* of characters; one step per awaited command of main.                     *)
(***************************************************************************)
\* largest version component of a pyproject.toml the model starts from
MaxVer == 10

DigitChars == <<"0", "1", "2", "3", "4", "5", "6", "7", "8", "9">>

\* `${n}` of a non-negative integer
RECURSIVE ToStr(_)
ToStr(n) == IF n < 10 THEN <<DigitChars[n + 1]>>
            ELSE ToStr(n \div 10) \o <<DigitChars[(n % 10) + 1]>>

\* Number(s) of a string of decimal digits; Number("") is 0
RECURSIVE Number(_)
Number(str) ==
    IF str = <<>> THEN 0
    ELSE 10 * Number(SubSeq(str, 1, Len(str) - 1))
           + (CHOOSE d \in 0..9 : DigitChars[d + 1] = str[Len(str)])

\* version.split(".")
RECURSIVE split(_)
split(str) ==
    IF \A i \in 1..Len(str) : str[i] # "." THEN <<str>>
    ELSE LET dot == MinOf(Positions(str, "."))
         IN  <<SubSeq(str, 1, dot - 1)>> \o split(SubSeq(str, dot + 1, Len(str)))

\* parseVersion: const [major, minor, patch] = version.split(".").map(Number)
parseVersion(version) ==
    LET parts == split(version)
    IN  <<Number(parts[1]), Number(parts[2]), Number(parts[3])>>

\* a bump that keeps the lower components
bumpVersionKeepsLower(version, bumpType) ==
    LET v == parseVersion(version)
    IN  CASE bumpType = "major" -> ToStr(v[1] + 1) \o <<".">> \o ToStr(v[2]) \o <<".">> \o ToStr(v[3])
          [] bumpType = "minor" -> ToStr(v[1]) \o <<".">> \o ToStr(v[2] + 1) \o <<".">> \o ToStr(v[3])
          [] OTHER -> ToStr(v[1]) \o <<".">> \o ToStr(v[2]) \o <<".">> \o ToStr(v[3] + 1)

\* bumpVersion, for the bump types main lets through
bumpVersion(version, bumpType) ==
    LET v == parseVersion(version)
    IN  CASE bumpType = "major" -> ToStr(v[1] + 1) \o <<".", "0", ".", "0">>
          [] bumpType = "minor" -> ToStr(v[1]) \o <<".">> \o ToStr(v[2] + 1) \o <<".", "0">>
          [] bumpType = "patch" -> ToStr(v[1]) \o <<".">> \o ToStr(v[2]) \o <<".">> \o ToStr(v[3] + 1)

BumpTypes == {"patch", "minor", "major"}

PubCmd(c, a, ok) == [cmd |-> c, arg |-> a, ok |-> ok]

\* process.exit(code), also from main().catch
PubExit(code) == pubPc' = "exit" /\ pubExit' = code

\* what the other parts of the model leave alone
pubOthers == <<profVars, provVars, shVars, psVars, initVars, psmVars, mcpVars, wrVars>>

\* main: usage and bump type validation, both ending with process.exit(1)
PubValidate ==
    /\ pubPc = "args"
    /\ IF pubArgs = <<>> \/ pubArgs[1] \notin BumpTypes
       THEN PubExit(1)
       ELSE pubPc' = "status" /\ UNCHANGED pubExit
    /\ UNCHANGED <<pubArgs, pubDirty, pubFile0, pubFile, pubNew, pubLog, pubOthers>>

\* a checkGitStatus whose catch answers true
PubCheckGitStatusFailOpen ==
    /\ pubPc = "status"
    /\ \E ok \in BOOLEAN :
          /\ pubLog' = Append(pubLog, PubCmd("git status", <<>>, ok))
          /\ IF ok /\ pubDirty
             THEN PubExit(1)
             ELSE pubPc' = "bump" /\ UNCHANGED pubExit
    /\ UNCHANGED <<pubArgs, pubDirty, pubFile0, pubFile, pubNew, pubOthers>>

\* checkGitStatus: git status --porcelain, false when it fails; main exits
\* with 1 unless the tree is clean
PubCheckGitStatus ==
    /\ pubPc = "status"
    /\ \E ok \in BOOLEAN :
          /\ pubLog' = Append(pubLog, PubCmd("git status", <<>>, ok))
          /\ IF ok /\ ~pubDirty
             THEN pubPc' = "bump" /\ UNCHANGED pubExit
             ELSE PubExit(1)
    /\ UNCHANGED <<pubArgs, pubDirty, pubFile0, pubFile, pubNew, pubOthers>>

\* getCurrentVersion (throws without a version line), bumpVersion and
\* updateVersion: readFileSync, replace, writeFileSync
PubBump ==
    /\ pubPc = "bump"
    /\ IF pubFile = <<>>
       THEN PubExit(1) /\ UNCHANGED <<pubFile, pubNew, pubLog>>
       ELSE LET newVersion == bumpVersion(pubFile, pubArgs[1])
            IN  \E ok \in BOOLEAN :
                   /\ pubNew' = newVersion
                   /\ pubLog' = Append(pubLog, PubCmd("write pyproject.toml", newVersion, ok))
                   /\ IF ok
                      THEN pubFile' = newVersion /\ pubPc' = "add" /\ UNCHANGED pubExit
                      ELSE UNCHANGED pubFile /\ PubExit(1)
    /\ UNCHANGED <<pubArgs, pubDirty, pubFile0, pubOthers>>

\* a git command whose failure is ignored
PubGitIgnoringFailure(cmd, arg, next) ==
    /\ \E ok \in BOOLEAN :
          /\ pubLog' = Append(pubLog, PubCmd(cmd, arg, ok))
          /\ pubPc' = next /\ UNCHANGED pubExit
    /\ UNCHANGED <<pubArgs, pubDirty, pubFile0, pubFile, pubNew, pubOthers>>

\* an awaited git command: the next statement when it succeeds, else the
\* rejection reaches main().catch and the process exits with 1
PubGit(cmd, arg, next) ==
    /\ \E ok \in BOOLEAN :
          /\ pubLog' = Append(pubLog, PubCmd(cmd, arg, ok))
          /\ IF ok THEN pubPc' = next /\ UNCHANGED pubExit ELSE PubExit(1)
    /\ UNCHANGED <<pubArgs, pubDirty, pubFile0, pubFile, pubNew, pubOthers>>

\* git add pyproject.toml
PubAdd == pubPc = "add" /\ PubGit("git add", <<>>, "commit")
\* git commit -m "Bump aftr version to <new>"
PubCommit == pubPc = "commit" /\ PubGit("git commit", pubNew, "tag")
\* git tag -a v<new>
PubTag == pubPc = "tag" /\ PubGit("git tag", <<"v">> \o pubNew, "push main")
\* git push origin main
PubPushMain == pubPc = "push main" /\ PubGit("git push origin", <<"main">>, "push tag")
\* git push origin v<new>
PubPushTag == pubPc = "push tag" /\ PubGit("git push origin", <<"v">> \o pubNew, "published")

\* main returns after the closing messages: exit code 0
PubDone ==
    /\ pubPc = "published"
    /\ PubExit(0)
    /\ UNCHANGED <<pubArgs, pubDirty, pubFile0, pubFile, pubNew, pubLog, pubOthers>>

\* the versions a pyproject.toml can hold at the start
Versions ==
    {ToStr(x) \o <<".">> \o ToStr(y) \o <<".">> \o ToStr(z) :
        x \in 0..MaxVer, y \in 0..MaxVer, z \in 0..MaxVer}

PubArgSets == {<<>>, <<"patch">>, <<"minor">>, <<"major">>, <<"bogus">>, <<"major", "minor">>}

InitPublish ==
    /\ pubPc = "args" /\ pubNew = <<>> /\ pubLog = <<>> /\ pubExit = -1
    /\ pubArgs \in PubArgSets
    /\ pubDirty \in BOOLEAN
    /\ pubFile0 \in Versions \cup {<<>>}
    /\ pubFile = pubFile0
    /\ ProfIdle /\ ProvIdle /\ ShIdle /\ PsIdle /\ InitIdle /\ PsmIdle /\ McpIdle /\ WrIdle

NextPublish ==
    \/ PubValidate \/ PubCheckGitStatus \/ PubBump
    \/ PubAdd \/ PubCommit \/ PubTag \/ PubPushMain \/ PubPushTag
    \/ PubDone

SpecPublish == InitPublish /\ [][NextPublish]_vars

(***************************************************************************)
(* Properties of the publish script                                         *)
(***************************************************************************)
PubRan(c) == \E i \in 1..Len(pubLog) : pubLog[i].cmd = c
PubSucceeded(c, a) == \E i \in 1..Len(pubLog) : pubLog[i] = PubCmd(c, a, TRUE)

\* no argument, a bump type other than patch/minor/major, an unclean working
\* tree, or a failed 'git status'
PubRefused ==
    \/ pubArgs = <<>>
    \/ pubArgs[1] \notin {"patch", "minor", "major"}
    \/ pubDirty
    \/ \E i \in 1..Len(pubLog) : pubLog[i].cmd = "git status" /\ ~pubLog[i].ok

PubMutations == {"write pyproject.toml", "git add", "git commit", "git tag", "git push origin"}

\* C17: without an argument, with a bump type other than patch/minor/major,
\* with an unclean working tree or a failing 'git status', the publish script
\* writes nothing to pyproject.toml, runs no git add/commit/tag/push and exits
\* non-zero; it exits 0 only when the version write, the commit, the tag and
\* both pushes all succeeded.
C17_PublishRefuses ==
    /\ PubRefused =>
          /\ pubFile = pubFile0
          /\ \A i \in 1..Len(pubLog) : pubLog[i].cmd \notin PubMutations
          /\ pubPc \in {"args", "status", "exit"}
          /\ pubPc = "exit" => pubExit # 0
    /\ (pubPc = "exit" /\ pubExit = 0) =>
          /\ PubSucceeded("write pyproject.toml", pubNew)
          /\ pubFile = pubNew /\ pubNew # pubFile0
          /\ PubSucceeded("git add", <<>>)
          /\ PubSucceeded("git commit", pubNew)
          /\ PubSucceeded("git tag", <<"v">> \o pubNew)
          /\ PubSucceeded("git push origin", <<"main">>)
          /\ PubSucceeded("git push origin", <<"v">> \o pubNew)

C17_Witness ==
    /\ pubArgs = <<"patch">> /\ ~pubDirty
    /\ \E i \in 1..Len(pubLog) : pubLog[i] = PubCmd("git status", <<>>, FALSE)
    /\ pubPc = "exit" /\ pubExit = 1 /\ pubFile = pubFile0 /\ pubFile0 # <<>>

\* the string 'X.Y.Z'
VersionString(x, y, z) == ToStr(x) \o <<".">> \o ToStr(y) \o <<".">> \o ToStr(z)

\* (major, minor, patch) lexicographic order
LexGreater(a, b) ==
    \/ a[1] > b[1]
    \/ a[1] = b[1] /\ a[2] > b[2]
    \/ a[1] = b[1] /\ a[2] = b[2] /\ a[3] > b[3]

\* C18: for a version 'X.Y.Z' bumpVersion returns '(X+1).0.0' for major,
\* 'X.(Y+1).0' for minor and 'X.Y.(Z+1)' for patch: a version strictly
\* greater in (major, minor, patch) order, with zeros below the bumped part.
\* Stated of the state in which main has just computed the new version.
C18_BumpVersion ==
    (pubLog # <<>> /\ pubLog[Len(pubLog)].cmd = "write pyproject.toml") =>
        \E x \in 0..MaxVer, y \in 0..MaxVer, z \in 0..MaxVer :
            /\ pubFile0 = VersionString(x, y, z)
            /\ pubArgs[1] = "major" => pubNew = VersionString(x + 1, 0, 0)
            /\ pubArgs[1] = "minor" => pubNew = VersionString(x, y + 1, 0)
            /\ pubArgs[1] = "patch" => pubNew = VersionString(x, y, z + 1)
            /\ LexGreater(parseVersion(pubNew), <<x, y, z>>)

C18_Witness ==
    /\ pubFile0 = <<"1", ".", "9", ".", "3">>
    /\ pubArgs = <<"minor">>
    /\ pubNew = <<"1", ".", "1", "0", ".", "0">>

(***************************************************************************)
(* The Project Scaffolding Tool: aftr init <name> [--path <dir>].  A path  *)
(* is a sequence of segments and a segment a sequence of characters, so    *)
(* that the project name can be rewritten character by character.          *)
(***************************************************************************)
MaxNameLen == 3

\* the characters of a project name
NameChars == {"a", "b", "-", "_"}

\* project names: a letter, then letters, hyphens and underscores
Names ==
    {n \in UNION {[1..k -> NameChars] : k \in 1..MaxNameLen} : n[1] \in {"a", "b"}}

\* the Python module name of a project
moduleNameFirstHyphen(name) ==
    [i \in 1..Len(name) |->
        IF name[i] = "-" /\ \A j \in 1..(i - 1) : name[j] # "-" THEN "_" ELSE name[i]]

moduleName(name) == [i \in 1..Len(name) |-> IF name[i] = "-" THEN "_" ELSE name[i]]

\* the project directory
initRoot == Append(initBase, initName)

\* the directories of the skeleton, below the project directory
InitDirs(name) ==
    {<<<<"data">>>>, <<<<"notebooks">>>>, <<<<"outputs">>>>, <<<<"src">>>>,
     <<<<"src">>, moduleName(name)>>}

\* the files of the skeleton, below the project directory
InitFiles ==
    {<<<<"pyproject.toml">>>>, <<<<".mise.toml">>>>, <<<<".gitignore">>>>,
     <<<<"README.md">>>>, <<<<"notebooks">>, <<"example.ipynb">>>>}

initOthers == <<profVars, provVars, shVars, psVars, pubVars, psmVars, mcpVars, wrVars>>

InitAbort == initPc' = "exit" /\ initExit' = 1

\* an existing, non-empty target is an error: nothing is created
InitCheckTarget ==
    /\ initPc = "check"
    /\ IF initTarget = "nonempty" THEN InitAbort ELSE initPc' = "root" /\ UNCHANGED initExit
    /\ UNCHANGED <<initName, initBase, initTarget, initTree, initOthers>>

\* the project directory, under the literal project name
InitMakeRoot ==
    /\ initPc = "root"
    /\ \E ok \in BOOLEAN :
          IF ok
          THEN initTree' = initTree \cup {initRoot} /\ initPc' = "dirs" /\ UNCHANGED initExit
          ELSE InitAbort /\ UNCHANGED initTree
    /\ UNCHANGED <<initName, initBase, initTarget, initOthers>>

\* data/, notebooks/, outputs/ and src/<module>/
InitMakeDirs ==
    /\ initPc = "dirs"
    /\ initTree' = initTree \cup {initRoot \o d : d \in InitDirs(initName)}
    /\ initPc' = "files"
    /\ UNCHANGED <<initName, initBase, initTarget, initExit, initOthers>>

\* the manifest files and the example notebook
InitWriteFiles ==
    /\ initPc = "files"
    /\ initTree' = initTree \cup {initRoot \o f : f \in InitFiles}
    /\ initPc' = "exit" /\ initExit' = 0
    /\ UNCHANGED <<initName, initBase, initTarget, initOthers>>

\* the cwd, or the directory given with --path
InitBases == {<<>>, <<<<"custom">>, <<"path">>>>}

InitInit ==
    /\ initPc = "check" /\ initTree = {} /\ initExit = -1
    /\ initName \in Names
    /\ initBase \in InitBases
    /\ initTarget \in {"absent", "empty", "nonempty"}
    /\ ProfIdle /\ ProvIdle /\ ShIdle /\ PsIdle /\ PubIdle /\ PsmIdle /\ McpIdle /\ WrIdle

NextInit == InitCheckTarget \/ InitMakeRoot \/ InitMakeDirs \/ InitWriteFiles

SpecInit == InitInit /\ [][NextInit]_vars

(***************************************************************************)
(* Properties of aftr init                                                 *)
(***************************************************************************)
\* the part of a created path below the project directory
Below(p) == SubSeq(p, Len(initRoot) + 1, Len(p))

\* the children of src/ that init has created
SrcChildren ==
    {Below(p)[2] : p \in {q \in initTree : Len(Below(q)) = 2 /\ Below(q)[1] = <<"src">>}}

\* C20: aftr init <name> creates the module directory as src/<name with every
\* hyphen replaced by an underscore>; the project directory and every other
\* path segment keep the literal name.
C20_ModuleDirNormalised ==
    /\ \A p \in initTree :
          /\ Len(p) >= Len(initRoot)
          /\ SubSeq(p, 1, Len(initBase)) = initBase
          /\ p[Len(initBase) + 1] = initName
    /\ \A m \in SrcChildren :
          /\ Len(m) = Len(initName)
          /\ \A i \in 1..Len(m) : m[i] # "-"
          /\ \A i \in 1..Len(m) : initName[i] # "-" => m[i] = initName[i]
          /\ \A i \in 1..Len(m) : initName[i] = "-" => m[i] = "_"
    /\ (initPc = "exit" /\ initExit = 0) => Cardinality(SrcChildren) = 1

C20_Witness ==
    /\ initName = <<"a", "-", "-">>
    /\ initPc = "exit" /\ initExit = 0
    /\ <<<<"a", "-", "-">>, <<"src">>, <<"a", "_", "_">>>> \in initTree

(***************************************************************************)
(* The life of an installable item in the Provisioning Stage               *)
(***************************************************************************)
ProvInstallCmds == {"mise install", "uv tool install", "bun install -g"}

\* the presence query installMiseTools, installUvTools and installBunGlobals
\* make for the item of an install command
QueryOf(c) ==
    CASE c.cmd = "mise install"    -> Cmd("mise list", toolName(c.arg))
      [] c.cmd = "uv tool install" -> Cmd("which", c.arg)
      [] c.cmd = "bun install -g"  -> Cmd("which", cmdName(c.arg))

\* an install command directly follows the presence query of its item
InstallAfterQuery ==
    \A i \in 1..Len(log) :
        log[i].cmd \in ProvInstallCmds => i > 1 /\ log[i - 1] = QueryOf(log[i])

\* no item gets a second install attempt in the run
InstallAtMostOnce ==
    \A i, j \in 1..Len(log) :
        (log[i].cmd \in ProvInstallCmds /\ log[i] = log[j]) => i = j

\* a failed install does not end the run
InstallFailureNotFatal == pc = "failed" => cause.cmd \notin ProvInstallCmds

\* C21: an install command for an item is issued only after a presence query
\* for that item was answered absent, at most once per item and run, and a
\* failed install leaves the run going on to the remaining items.
C21_ItemLifecycle == InstallAfterQuery /\ InstallAtMostOnce /\ InstallFailureNotFatal

(***************************************************************************)
(* Further properties of the Windows Bootstrap Stage                       *)
(***************************************************************************)
\* what 'scoop bucket list' and 'scoop list' would answer now
BucketsNow == IF psScoop THEN scoopHas \cap {"extras"} ELSE {}
AppsNow == IF psScoop THEN scoopHas \ {"extras"} ELSE {}

\* C22: in the bucket loop and the package loop of setup.ps1 the installed
\* state used for item k is the state at that moment: it reflects every
\* install the run performed for the items before k, never a result cached
\* before them.
C22_PresenceNotCached ==
    /\ (psPc = "buckets" /\ psIdx <= Len(PsManifest.buckets)) => psBuckets = BucketsNow
    /\ (psPc = "packages" /\ psIdx <= Len(packages)) => psInstalledApps = AppsNow

\* the lists are fresh when each loop starts
PresenceFreshAtLoopStart ==
    /\ (psPc = "buckets" /\ psIdx = 1) => psBuckets = BucketsNow
    /\ (psPc = "packages" /\ psIdx = 1) => psInstalledApps = AppsNow

(***************************************************************************)
(* "Install mise tools from config" in the all-in-one PowerShell scripts:  *)
(* the older setup.ps1 and the revision with the bun PATH snippet.  The    *)
(* status of 'mise use -g' is ignored (its output is piped to Write-Host). *)
(***************************************************************************)
PsmVariants == {"setup.ps1", "part_001"}

psmOthers == <<profVars, provVars, shVars, psVars, pubVars, initVars, mcpVars, wrVars>>

\* mise list $toolName 2>$null | Where-Object { $_ -notmatch "\(missing\)" }
notMissing(lines) == {l \in lines : ~l.missing}

\* the condition of the if, on the lines the query printed; in part_001 it is
\* mise list $toolName 2>$null | Select-String $toolName, and every line of
\* the listing names the tool
psmInstalledTest(v, lines) ==
    IF v = "setup.ps1" THEN notMissing(lines) # {} ELSE lines # {}

PsmLoop(i) ==
    IF i <= Len(config(psmVariant).mise_tools)
    THEN psmPc' = "mise_list" /\ psmIdx' = i
    ELSE psmPc' = "done" /\ psmIdx' = 0

\* foreach ($tool in ...): the query (nothing on a failure) and the decision
PsmMiseList ==
    /\ psmPc = "mise_list"
    /\ LET tool == config(psmVariant).mise_tools[psmIdx]
           name == toolName(tool)
       IN  \E ok \in BOOLEAN :
             LET lines == IF ok THEN miseList(psmInstalled, psmGlobal, name) ELSE {}
             IN  /\ psmLog' = Append(psmLog, [cmd |-> "mise list", arg |-> name, ok |-> ok])
                 /\ IF psmInstalledTest(psmVariant, lines)
                    THEN PsmLoop(psmIdx + 1)
                    ELSE psmPc' = "mise_use" /\ UNCHANGED psmIdx
    /\ UNCHANGED <<psmVariant, psmInstalled, psmGlobal, psmOthers>>

\* mise use -g $tool 2>&1 | Write-Host
PsmMiseUse ==
    /\ psmPc = "mise_use"
    /\ LET tool == config(psmVariant).mise_tools[psmIdx]
       IN  \E ok \in BOOLEAN :
             /\ psmLog' = Append(psmLog, [cmd |-> "mise use -g", arg |-> tool, ok |-> ok])
             /\ IF ok
                THEN /\ psmGlobal' = [psmGlobal EXCEPT ![toolName(tool)] = toolVersion(tool)]
                     /\ psmInstalled' = [psmInstalled EXCEPT
                            ![toolName(tool)] = @ \cup {toolVersion(tool)}]
                ELSE UNCHANGED <<psmInstalled, psmGlobal>>
    /\ PsmLoop(psmIdx + 1)
    /\ UNCHANGED <<psmVariant, psmOthers>>

\* any state of the version manager before the run
InitPsm ==
    /\ psmPc = "mise_list" /\ psmIdx = 1 /\ psmLog = <<>>
    /\ psmVariant \in PsmVariants
    /\ psmInstalled \in [MiseNames -> SUBSET (UNION {AvailVersions(n) : n \in MiseNames})]
    /\ \A n \in MiseNames : psmInstalled[n] \subseteq AvailVersions(n)
    /\ psmGlobal \in [MiseNames -> {NoVersion} \cup UNION {AvailVersions(n) : n \in MiseNames}]
    /\ \A n \in MiseNames : psmGlobal[n] \in {NoVersion} \cup AvailVersions(n)
    /\ ProfIdle /\ ProvIdle /\ ShIdle /\ PsIdle /\ PubIdle /\ InitIdle /\ McpIdle /\ WrIdle

NextPsm == PsmMiseList \/ PsmMiseUse

SpecPsm == InitPsm /\ [][NextPsm]_vars

(***************************************************************************)
(* Properties of the presence test of version-managed tools                *)
(***************************************************************************)
\* the query succeeded, printed something, and nothing it printed is '(missing)'
PresentByListing(ok, lines) == ok /\ lines # {} /\ \A l \in lines : ~l.missing

\* C23: a version-managed tool is treated as present exactly when
\* 'mise list <name>' succeeds with a non-empty output without a '(missing)'
\* entry; in every other case the tool is installed and activated.  Stated of
\* the PowerShell scripts' loop: the step after the query is the install
\* exactly when the listing does not show the tool present.
C23_PresentIffListedNotMissing ==
    [][psmPc = "mise_list" =>
          LET name == toolName(config(psmVariant).mise_tools[psmIdx])
              ok == psmLog'[Len(psmLog')].ok
          IN  (psmPc' # "mise_use") <=>
                  PresentByListing(ok, miseList(psmInstalled, psmGlobal, name))]_vars

\* setup.ts: a tool whose listing does not show it present is installed next
TsMissingLeadsToInstall ==
    [][(pc = "mise_list" /\
        ~alreadyInstalled(miseList(miseInstalled, miseGlobal,
                                   toolName(config(variant).mise_tools[idx]))))
          => pc' = "mise_install"]_vars

\* setup.ts: a tool is skipped only when its listing shows it present
TsSkipOnlyWhenPresent ==
    [][(pc = "mise_list" /\ pc' # "mise_install")
          => alreadyInstalled(miseList(miseInstalled, miseGlobal,
                                       toolName(config(variant).mise_tools[idx])))]_vars

(***************************************************************************)
(* The order of the steps of setup.ps1                                     *)
(***************************************************************************)
\* the step of setup.ps1 a logged command belongs to, numbered in the order
\* the claim gives: configuration 0, Scoop 1, git 2, buckets 3, packages 4,
\* bun 5, the bun-conflict prompts 6, staging 7, the handoff 8
PsStepOf(c) ==
    CASE c.cmd = "Invoke-RestMethod" -> 0
      [] c.cmd = "install Scoop" -> 1
      [] c.cmd \in {"scoop list", "scoop install"} /\ c.arg = "git" -> 2
      [] c.cmd \in {"scoop bucket list", "$buckets | Select-String", "scoop bucket add"} -> 3
      [] c.cmd = "scoop list" /\ c.arg = "" -> 4
      [] c.cmd = "$installedApps -contains" -> 4
      [] c.cmd = "scoop install" /\ c.arg # "git" -> 4
      [] c.cmd = "scoop list" /\ c.arg = "bun" -> 5
      [] c.cmd = "pwsh scoop install" -> 5
      [] c.cmd \in {"Read-Host native bun", "Read-Host mise bun", "mise uninstall"} -> 6
      [] c.cmd \in {"Copy-Item", "Invoke-WebRequest"} -> 7
      [] c.cmd = "bun run" -> 8

PsBunRunsIn(l) == {i \in 1..Len(l) : l[i].cmd = "bun run"}

PsNewCmds == {psLog'[i] : i \in (Len(psLog) + 1)..Len(psLog')}

\* the step read an answer to the given prompt that is empty or starts with y/Y
PsAnsweredYes(prompt) ==
    \E c \in PsNewCmds : c.cmd = prompt /\ (c.arg = <<>> \/ c.arg[1] \in {"y", "Y"})

\* the step read an answer to the given prompt that is anything else
PsAnsweredNo(prompt) ==
    \E c \in PsNewCmds : c.cmd = prompt /\ c.arg # <<>> /\ c.arg[1] \notin {"y", "Y"}

\* C25: setup.ps1 removes nothing without the user's confirmation: the native
\* bun.exe is deleted, 'mise uninstall bun' is run and the 'bun =' line leaves
\* the mise config only in a step whose Read-Host answer was empty or started
\* with y/Y; with any other answer the three are unchanged.
C25_RemovalOnlyAfterConfirmation ==
    [][/\ psNativeBun' # psNativeBun => PsAnsweredYes("Read-Host native bun")
       /\ (\/ psMiseBun' # psMiseBun
           \/ psMiseToml' # psMiseToml
           \/ \E c \in PsNewCmds : c.cmd = "mise uninstall")
             => PsAnsweredYes("Read-Host mise bun")
       /\ PsAnsweredNo("Read-Host native bun") => psNativeBun' = psNativeBun
       /\ PsAnsweredNo("Read-Host mise bun") =>
             /\ psMiseBun' = psMiseBun /\ psMiseToml' = psMiseToml
             /\ \A c \in PsNewCmds : c.cmd # "mise uninstall"]_vars

C25_Witness ==
    /\ psPc = "stage"
    /\ psNativeBun
    /\ \E i \in 1..Len(psLog) : psLog[i] = PsCmd("Read-Host native bun", <<"n", "o">>, TRUE)
    /\ \E i \in 1..(Len(psLog) - 1) :
          /\ psLog[i] = PsCmd("Read-Host mise bun", <<"Y", "e", "s">>, TRUE)
          /\ psLog[i + 1] = PsCmd("mise uninstall", "bun", TRUE)
    /\ psMiseBun = "none" /\ ~psMiseToml

(***************************************************************************)
(* The chained Scaffolding Tool (aftr revision of setup.ts)                *)
(***************************************************************************)
AftrCalls == {i \in 1..Len(log) : log[i] = Cmd("aftr setup", <<>>)}

AftrNote == Msg("Note: aftr setup exited with code", <<>>)

\* C26: in the revision that chains 'aftr setup', the command is run at most
\* once and only after showSummary's listings; its failure is caught: the run
\* never ends as failed because of it, and a run that printed the note still
\* prints 'Setup complete!' and ends with exit code 0.
C26_AftrSetupCaught ==
    variant = "ts_aftr" =>
        /\ Cardinality(AftrCalls) <= 1
        /\ \A i \in AftrCalls :
              /\ \E j \in 1..(i - 1) : log[j] = Cmd("mise list", <<>>)
              /\ \E j \in 1..(i - 1) : log[j].cmd = "uv tool list"
        /\ AftrCalls # {} => pc \in {"main", "done"} /\ exitCode # 1
        /\ AftrNote \in out => AftrCalls # {}
        /\ (pc = "done" /\ AftrCalls # {}) =>
              /\ Msg("Setup complete!", <<>>) \in out
              /\ exitCode = 0

C26_Witness ==
    /\ variant = "ts_aftr" /\ pc = "done" /\ exitCode = 0
    /\ AftrNote \in out
    /\ Msg("Setup complete!", <<>>) \in out
    /\ log[Len(log)] = Cmd("aftr setup", <<>>)

(***************************************************************************)
(* The order of a publish run                                              *)
(***************************************************************************)
\* the steps of a publish run for the new version, in the order of the claim
PubPlan(new) ==
    << [cmd |-> "git status", arg |-> <<>>],
       [cmd |-> "write pyproject.toml", arg |-> new],
       [cmd |-> "git add", arg |-> <<>>],
       [cmd |-> "git commit", arg |-> new],
       [cmd |-> "git tag", arg |-> <<"v">> \o new],
       [cmd |-> "git push origin", arg |-> <<"main">>],
       [cmd |-> "git push origin", arg |-> <<"v">> \o new] >>

\* C27: a publish run writes the new version, then runs git add, git commit,
\* git tag v<new>, git push origin main and git push origin v<new>, in this
\* order; a step starts only after the one before it succeeded; after a
\* failed step nothing more is run and the exit code is 1.
C27_PublishOrder ==
    /\ Len(pubLog) <= Len(PubPlan(pubNew))
    /\ \A i \in 1..Len(pubLog) :
          /\ pubLog[i].cmd = PubPlan(pubNew)[i].cmd
          /\ pubLog[i].arg = PubPlan(pubNew)[i].arg
          /\ i < Len(pubLog) => pubLog[i].ok
    /\ (pubLog # <<>> /\ ~pubLog[Len(pubLog)].ok) => pubPc = "exit" /\ pubExit = 1
    /\ PubRan("git tag") => PubSucceeded("git commit", pubNew)
    /\ PubRan("git push origin") => PubSucceeded("git tag", <<"v">> \o pubNew)

C27_Witness ==
    /\ Len(pubLog) = 6
    /\ pubLog[5] = PubCmd("git tag", <<"v">> \o pubNew, TRUE)
    /\ pubLog[6] = PubCmd("git push origin", <<"main">>, FALSE)
    /\ pubPc = "exit" /\ pubExit = 1

(***************************************************************************)
(* setup-mcp.sh: the Playwright MCP entry in the Claude Desktop config,    *)
(* run under "set -e".  A JSON object is a function from the paths of its  *)
(* leaves to their values; a value that is not an object (a string, an     *)
(* array, null) is a leaf, and a leaf alone has the empty path.            *)
(***************************************************************************)
MaxMcpRuns == 2

\* MCP_CONFIG: mcpServers.playwright with its command and its args
MCP_CONFIG ==
    (<<"mcpServers", "playwright", "command">> :> "fixed") @@
    (<<"mcpServers", "playwright", "args">> :> "fixed")

IsLeaf(d) == DOMAIN d = {<<>>}
Keys(d) == {p[1] : p \in DOMAIN d}
\* the value of key k of an object
Sub(d, k) ==
    [q \in {Tail(p) : p \in {r \in DOMAIN d : r[1] = k}} |-> d[<<k>> \o q]]

\* jq: a * b, the recursive merge: a key of both whose two values are objects
\* is merged the same way, any other key of b takes b's value
RECURSIVE Multiply(_, _)
Multiply(a, b) ==
    IF IsLeaf(a) \/ IsLeaf(b) THEN b
    ELSE LET child(k) ==
                 IF k \in Keys(a) /\ k \in Keys(b) THEN Multiply(Sub(a, k), Sub(b, k))
                 ELSE IF k \in Keys(b) THEN Sub(b, k) ELSE Sub(a, k)
             paths == UNION {{<<k>> \o q : q \in DOMAIN child(k)} :
                                k \in Keys(a) \cup Keys(b)}
         IN  [p \in paths |-> child(p[1])[Tail(p)]]

\* the file: absent, not JSON, empty (no JSON value in it), or a JSON object
\* in jq's layout or in another one
McpAbsent == [kind |-> "absent", doc |-> <<>>, fmt |-> "none"]
McpGarbage == [kind |-> "garbage", doc |-> <<>>, fmt |-> "none"]
McpEmpty == [kind |-> "empty", doc |-> <<>>, fmt |-> "none"]
McpJson(d, f) == [kind |-> "json", doc |-> d, fmt |-> f]

mcpOthers == <<profVars, provVars, shVars, psVars, pubVars, initVars, psmVars, wrVars>>

McpAbort(code) == mcpPc' = "exit" /\ mcpExit' = code

\* if ! command -v jq: the error message and exit 1
McpCheckJq ==
    /\ mcpPc = "jq"
    /\ IF mcpJq THEN mcpPc' = "mkdir" /\ UNCHANGED mcpExit ELSE McpAbort(1)
    /\ UNCHANGED <<mcpJq, mcpDir, mcpFile, mcpPrev, mcpRun, mcpOthers>>

\* mkdir -p "$CLAUDE_CONFIG_DIR"
McpMkdir ==
    /\ mcpPc = "mkdir"
    /\ \E ok \in BOOLEAN :
          IF ok \/ mcpDir
          THEN mcpDir' = TRUE /\ mcpPc' = "write" /\ UNCHANGED mcpExit
          ELSE UNCHANGED mcpDir /\ McpAbort(1)
    /\ UNCHANGED <<mcpJq, mcpFile, mcpPrev, mcpRun, mcpOthers>>

\* the file exists: jq '. * $new' into a temporary file that replaces it (jq
\* fails on a file that is not JSON and prints nothing for an empty one);
\* else echo "$MCP_CONFIG" | jq '.' into the new file
McpWrite ==
    /\ mcpPc = "write"
    /\ CASE mcpFile.kind = "json" ->
              /\ mcpFile' = McpJson(Multiply(mcpFile.doc, MCP_CONFIG), "jq")
              /\ mcpPc' = "report" /\ UNCHANGED mcpExit
         [] mcpFile.kind = "empty" ->
              /\ mcpFile' = McpEmpty
              /\ mcpPc' = "report" /\ UNCHANGED mcpExit
         [] mcpFile.kind = "garbage" ->
              /\ UNCHANGED mcpFile
              /\ McpAbort(2)
         [] mcpFile.kind = "absent" ->
              /\ mcpFile' = McpJson(MCP_CONFIG, "jq")
              /\ mcpPc' = "report" /\ UNCHANGED mcpExit
    /\ UNCHANGED <<mcpJq, mcpDir, mcpPrev, mcpRun, mcpOthers>>

\* the closing messages and jq '.mcpServers' of MCP_CONFIG
McpReport ==
    /\ mcpPc = "report"
    /\ McpAbort(0)
    /\ UNCHANGED <<mcpJq, mcpDir, mcpFile, mcpPrev, mcpRun, mcpOthers>>

\* the script is run again after a run that completed
McpRunAgain ==
    /\ mcpPc = "exit" /\ mcpExit = 0
    /\ mcpRun < MaxMcpRuns
    /\ mcpRun' = mcpRun + 1
    /\ mcpPrev' = [dir |-> mcpDir, file |-> mcpFile]
    /\ mcpPc' = "jq" /\ mcpExit' = -1
    /\ UNCHANGED <<mcpJq, mcpDir, mcpFile, mcpOthers>>

\* the leaves a config file can have before the first run: the Playwright
\* entry's command, args and env, another server, another top-level key, and
\* mcpServers or its playwright entry holding something that is not an object
McpLeafPaths ==
    {<<"mcpServers", "playwright", "command">>, <<"mcpServers", "playwright", "args">>,
     <<"mcpServers", "playwright", "env">>, <<"mcpServers", "other", "command">>,
     <<"theme">>, <<"mcpServers">>, <<"mcpServers", "playwright">>}

McpValues(p) == IF p \in DOMAIN MCP_CONFIG THEN {"fixed", "other"} ELSE {"other"}

McpDocs ==
    UNION {{d \in [S -> {"fixed", "other"}] : \A p \in S : d[p] \in McpValues(p)} :
              S \in {T \in SUBSET McpLeafPaths :
                        \A p, q \in T : p # q => ~IsPrefix(p, q)}}

InitMcp ==
    /\ mcpPc = "jq" /\ mcpRun = 1 /\ mcpExit = -1
    /\ mcpJq \in BOOLEAN
    /\ mcpFile \in {McpAbsent, McpGarbage, McpEmpty}
                      \cup {McpJson(d, f) : d \in McpDocs, f \in {"jq", "other"}}
    /\ mcpDir \in BOOLEAN
    /\ mcpFile.kind # "absent" => mcpDir
    /\ mcpPrev = [dir |-> mcpDir, file |-> mcpFile]
    /\ ProfIdle /\ ProvIdle /\ ShIdle /\ PsIdle /\ PubIdle /\ InitIdle /\ PsmIdle /\ WrIdle

NextMcp == McpCheckJq \/ McpMkdir \/ McpWrite \/ McpReport \/ McpRunAgain

SpecMcp == InitMcp /\ [][NextMcp]_vars

(***************************************************************************)
(* Properties of setup-mcp.sh                                              *)
(***************************************************************************)
PwPath == <<"mcpServers", "playwright">>

\* the value at a path of a document
Under(d, prefix) ==
    [q \in {SubSeq(p, Len(prefix) + 1, Len(p)) :
               p \in {r \in DOMAIN d : IsPrefix(prefix, r)}} |-> d[prefix \o q]]

McpCompleted == mcpPc = "exit" /\ mcpExit = 0

\* the leaves of the old file that are neither inside the Playwright entry
\* nor replaced to make room for it are in the new file, with their values
McpOthersKept ==
    \A p \in DOMAIN mcpPrev.file.doc :
        (~IsPrefix(PwPath, p) /\ ~IsPrefix(p, PwPath)) =>
            p \in DOMAIN mcpFile.doc /\ mcpFile.doc[p] = mcpPrev.file.doc[p]

\* an existing file ends with exactly the fixed Playwright entry
McpMergeSetsEntry ==
    (McpCompleted /\ mcpPrev.file.kind # "absent") =>
        /\ mcpFile.kind = "json"
        /\ Under(mcpFile.doc, PwPath) = Under(MCP_CONFIG, PwPath)

McpMergeKeepsOthers ==
    (McpCompleted /\ mcpPrev.file.kind # "absent") => McpOthersKept

McpCreates ==
    (McpCompleted /\ mcpPrev.file.kind = "absent") => mcpFile = McpJson(MCP_CONFIG, "jq")

McpSecondRunChangesNothing ==
    (McpCompleted /\ mcpRun >= 2) => mcpFile = mcpPrev.file

McpNeedsJq ==
    ~mcpJq => /\ mcpPc = "exit" => mcpExit = 1
              /\ mcpDir = mcpPrev.dir /\ mcpFile = mcpPrev.file

\* C28: setup-mcp.sh merges without destroying and is idempotent: an existing
\* config file ends with mcpServers.playwright equal to the fixed entry and
\* every other key and server entry unchanged; an absent file is created with
\* exactly the fixed config; a second run changes nothing; without jq the
\* script exits with 1 before it creates the directory or touches the file.
C28_McpMerge ==
    /\ McpMergeSetsEntry
    /\ McpMergeKeepsOthers
    /\ McpCreates
    /\ McpSecondRunChangesNothing
    /\ McpNeedsJq

\* what the merge does give for an existing JSON object: the fixed command and
\* args, next to whatever else the old Playwright entry held
McpMergeOfObject ==
    (McpCompleted /\ mcpPrev.file.kind = "json") =>
        /\ mcpFile.kind = "json"
        /\ \A p \in DOMAIN MCP_CONFIG :
              p \in DOMAIN mcpFile.doc /\ mcpFile.doc[p] = MCP_CONFIG[p]
        /\ McpOthersKept

(***************************************************************************)
(* The sandbox test wrapper: test-wrapper.ps1, run with powershell -File.  *)
(* setup.ps1 is dot-sourced inside try/catch.  A terminating error of      *)
(* setup.ps1 is taken by the catch.  An exit statement ends the script     *)
(* file that is running, here the dot-sourced setup.ps1; the wrapper goes  *)
(* on with the statement after the dot-sourcing.                           *)
(***************************************************************************)
\* the commands the verification looks for, in its order
WrTools == <<"scoop", "mise", "bun", "claude">>

WrToolSet == {WrTools[i] : i \in 1..Len(WrTools)}

wrOthers == <<profVars, provVars, shVars, psVars, pubVars, initVars, psmVars, mcpVars>>

\* Start-Transcript and the two opening lines
WrStart ==
    /\ wrPc = "start"
    /\ wrTranscript' = "on"
    /\ wrOut' = wrOut \o <<Msg("Starting setup.ps1 test...", "")>>
    /\ wrPc' = "dot-source"
    /\ UNCHANGED <<wrIdx, wrSetup, wrHas, wrOthers>>

\* an exit statement of setup.ps1 taken as the end of the whole session
WrDotSourceExitEndsSession ==
    /\ wrPc = "dot-source"
    /\ \E how \in {"completed", "error", "exit"}, S \in SUBSET WrToolSet :
          /\ wrSetup' = how
          /\ wrHas' = wrHas \cup S
          /\ wrOut' = wrOut \o
                 (IF how = "completed"
                  THEN <<Msg("Setup script completed successfully!", "")>>
                  ELSE IF how = "error" THEN <<Msg("ERROR:", "")>> ELSE <<>>)
          /\ IF how = "exit"
             THEN wrPc' = "closed" /\ UNCHANGED wrIdx
             ELSE wrPc' = "verify" /\ wrIdx' = 1
    /\ UNCHANGED <<wrTranscript, wrOthers>>

\* try { . "C:\TestFiles\setup.ps1"; Write-Host "...completed successfully!" }
\* catch { Write-Host "ERROR: $_" }: setup.ps1 runs to its end, raises a
\* terminating error, or stops at an exit; it may have installed anything
WrDotSource ==
    /\ wrPc = "dot-source"
    /\ \E how \in {"completed", "error", "exit"}, S \in SUBSET WrToolSet :
          /\ wrSetup' = how
          /\ wrHas' = wrHas \cup S
          /\ wrOut' = wrOut \o
                 (IF how = "error"
                  THEN <<Msg("ERROR:", "")>>
                  ELSE <<Msg("Setup script completed successfully!", "")>>)
    /\ wrPc' = "verify" /\ wrIdx' = 1
    /\ UNCHANGED <<wrTranscript, wrOthers>>

\* if (Get-Command <tool> -ErrorAction SilentlyContinue) { INSTALLED } else { NOT FOUND }
WrVerify ==
    /\ wrPc = "verify"
    /\ LET tool == WrTools[wrIdx] IN
       wrOut' = Append(wrOut, Msg(IF tool \in wrHas THEN "INSTALLED" ELSE "NOT FOUND", tool))
    /\ IF wrIdx < Len(WrTools)
       THEN wrIdx' = wrIdx + 1 /\ UNCHANGED wrPc
       ELSE wrIdx' = 0 /\ wrPc' = "stop"
    /\ UNCHANGED <<wrSetup, wrHas, wrTranscript, wrOthers>>

\* "=== Test Complete ===", Stop-Transcript, and the closing Read-Host
WrStop ==
    /\ wrPc = "stop"
    /\ wrTranscript' = "stopped"
    /\ wrOut' = wrOut \o <<Msg("=== Test Complete ===", ""),
                           Msg("Transcript saved to:", "")>>
    /\ wrPc' = "done"
    /\ UNCHANGED <<wrIdx, wrSetup, wrHas, wrOthers>>

\* a sandbox in which any of the commands may already be there
InitWrap ==
    /\ wrPc = "start" /\ wrIdx = 0 /\ wrSetup = "none" /\ wrOut = <<>>
    /\ wrTranscript = "off"
    /\ wrHas \in SUBSET WrToolSet
    /\ ProfIdle /\ ProvIdle /\ ShIdle /\ PsIdle /\ PubIdle /\ InitIdle /\ PsmIdle /\ McpIdle

NextWrap == WrStart \/ WrDotSource \/ WrVerify \/ WrStop

\* the wrapper is a sequential script: it takes its next step
SpecWrap == InitWrap /\ [][NextWrap]_vars /\ WF_vars(NextWrap)

(***************************************************************************)
(* Properties of the test wrapper                                          *)
(***************************************************************************)
\* the four presence reports, each INSTALLED or NOT FOUND
WrVerified ==
    \A t \in WrToolSet :
        \E i \in 1..Len(wrOut) :
            wrOut[i].arg = t /\ wrOut[i].msg \in {"INSTALLED", "NOT FOUND"}

WrSaidCompleted ==
    \E i \in 1..Len(wrOut) : wrOut[i] = Msg("Setup script completed successfully!", "")

\* C29: once setup.ps1 was dot-sourced the wrapper always reaches the
\* verification of scoop, mise, bun and claude and Stop-Transcript, whether
\* setup.ps1 completed, raised an error or stopped at an exit; 'Setup script
\* completed successfully!' is printed only if setup.ps1 raised no
\* terminating error.
C29_VerificationAlwaysReached ==
    /\ (wrSetup # "none") ~> (WrVerified /\ wrTranscript = "stopped")
    /\ [](WrSaidCompleted => wrSetup \in {"completed", "exit"})

C29_Witness ==
    /\ wrSetup = "exit" /\ wrPc = "done" /\ wrTranscript = "stopped"
    /\ WrVerified
    /\ \E i \in 1..Len(wrOut) : wrOut[i] = Msg("NOT FOUND", "claude")

(***************************************************************************)
(* installMiseTools and the versions the manifest asks for                 *)
(***************************************************************************)
MiseToolsOf(v) == {config(v).mise_tools[i] : i \in 1..Len(config(v).mise_tools)}

\* every tool of the manifest was handled and none of them with a warning:
\* each got 'already installed via mise' or 'installed successfully'
MiseFinishedWithoutWarning ==
    \A tool \in MiseToolsOf(variant) :
        \/ Msg("already installed via mise", toolName(tool)) \in out
        \/ Msg("installed successfully", toolName(tool)) \in out

\* the tool is installed and globally active at the version the manifest names
AtRequestedVersion(tool) ==
    /\ toolVersion(tool) \in miseInstalled[toolName(tool)]
    /\ miseGlobal[toolName(tool)] = toolVersion(tool)

\* C30: after installMiseTools finished without printing a warning, every
\* manifest entry name@version of mise_tools is installed and globally
\* activated at the requested version, also when a different version of the
\* same tool was installed before the run.
C30_RequestedVersionsActive ==
    MiseFinishedWithoutWarning =>
        \A tool \in MiseToolsOf(variant) : AtRequestedVersion(tool)

\* what holds: a tool reported as 'installed successfully' is installed and
\* active at the requested version
SuccessMeansRequestedVersion ==
    \A tool \in MiseToolsOf(variant) :
        Msg("installed successfully", toolName(tool)) \in out => AtRequestedVersion(tool)

\* what holds: on a machine where mise held nothing before the run, the
\* claim's statement is true
RequestedVersionsActiveOnFreshMachine ==
    (\A n \in MiseNames : world0.installed[n] = {} /\ world0.global[n] = NoVersion)
        => C30_RequestedVersionsActive
====
